---- MODULE Spec2Model ----
(***************************************************************************)
(* The generation pipeline of trasher: the work dispatcher, the worker     *)
(* pool and its buffer pool (internal/worker/pool.go), the result sink,    *)
(* the error monitor and the main routine of runTrasher (cmd/root.go), the *)
(* file writer (internal/writer) and the shutdown handler                  *)
(* (internal/signal/handler.go); and, each taken alone with the goroutines *)
(* that call it, the shutdown handler, the checksum generator              *)
(* (internal/checksum), the file writer and the sequential generator       *)
(* (pkg/generator).                                                        *)
(*                                                                         *)
(* Worker goroutines are anonymous (go p.worker(gen)), so the pool's       *)
(* workers are kept as a bag of local states: one element per goroutine.   *)
(* A []byte is modelled by its length; the capacity of every buffer of the *)
(* pool is chunkSize and never changes.                                    *)
(***************************************************************************)
EXTENDS Integers, Sequences, FiniteSets, Bags, TLC

\* Bounds of the model.
MaxWorkers == 2
MaxChunk == 2
MaxTotal == 3
MaxMultiple == 2
MaxCleanups == 2
MaxStops == 2
MaxByte == 1
MaxCallers == 2
MaxCalls == 3
MaxItems == 7
MaxOps == 4

VARIABLES
    numWorkers,     \* WorkerPool.numWorkers
    chunkSize,      \* WorkerPool.chunkSize
    totalSize,      \* sizeBytes / totalSize of the run
    pattern,        \* the generator in use
    ctxDone,        \* the shutdown handler's context (ctx of runTrasher) is cancelled
    poolCancelled,  \* WorkerPool.cancel has been called
    workChan,       \* buffered items of WorkerPool.workChan
    workClosed,     \* close(p.workChan) has run
    resultChan,     \* buffered items of WorkerPool.resultChan
    resultClosed,   \* close(p.resultChan) has run
    errorChan,      \* number of errors buffered in WorkerPool.errorChan
    errorClosed,    \* close(p.errorChan) has run
    bufferPool,     \* WorkerPool.bufferPool: a bag of buffer lengths
    dispPc,         \* position of distributeWork
    offset,         \* the local offset of distributeWork
    workers,        \* bag of the worker goroutines' local states
    sinkPc,         \* position of the result sink goroutine
    result,         \* the result the sink is processing
    writtenBytes,   \* the atomic counter of runTrasher
    fileOpen,       \* FileWriter.file # nil
    written,        \* FileWriter.written
    extents,        \* the ranges of the file written so far
    shState,        \* shutdownOnce: "running", "cancelled" (inside Do), "done"
    sigPc,          \* position of ShutdownHandler.signalLoop
    monPc,          \* position of the error monitor goroutine
    mainPc,         \* position of runTrasher after starting the goroutines
    outcome,        \* what runTrasher returned
    emitted,        \* history: the work items sent by distributeWork, in order
    published,      \* history: bag of the results sent on resultChan
    acquired,       \* history: bag of work offsets for which bufferPool.Get ran
    released        \* history: bag of work offsets whose buffer was Put back

config == <<numWorkers, chunkSize, totalSize, pattern>>
chans == <<workChan, workClosed, resultChan, resultClosed, errorChan, errorClosed>>
disp == <<dispPc, offset, emitted>>
sink == <<sinkPc, result>>
file == <<fileOpen, written, extents>>
hist == <<published, acquired, released>>

\* The state of a ShutdownHandler taken alone (internal/signal/handler.go) and
\* of the goroutines that call it.
VARIABLES
    parentDone,     \* the context given to NewShutdownHandler is cancelled
    cancelled,      \* h.cancel() has been called
    sigChan,        \* number of signals buffered in ShutdownHandler.sigChan
    cleanupFns,     \* ShutdownHandler.cleanupFns: the functions, named 1, 2, ... as registered
    writer,         \* ShutdownHandler.writer # nil
    progress,       \* ShutdownHandler.progress: "nil", "running" or "stopped"
    output,         \* the lines written to ShutdownHandler.output
    mu,             \* ShutdownHandler.mu is held by performCleanup
    isShutdown,     \* ShutdownHandler.isShutdown
    shutdownOnce,   \* shutdownOnce: "idle", the position inside Do, or "done"
    cleanupIdx,     \* the loop variable i of performCleanup, counted from 1
    started,        \* Start has been called
    loopPc,         \* position of the signalLoop goroutine
    stopCalling,    \* number of Stop calls that have not returned
    stopReturned,   \* number of Stop calls that have returned
    waitPc,         \* position of a caller of ShutdownHandler.Wait
    calls,          \* history: the calls and returns of the cleanup functions
    entered,        \* history: how many times the function of shutdownOnce.Do started
    regAtShutdown   \* history: len(cleanupFns) when shutdown was initiated

handler == <<parentDone, cancelled, sigChan, cleanupFns, writer, progress, output, mu,
             isShutdown, shutdownOnce, cleanupIdx, started, loopPc, stopCalling,
             stopReturned, waitPc, calls, entered, regAtShutdown>>

\* The state of a ChecksumGenerator taken alone (internal/checksum) and of the
\* calls made on it.
VARIABLES
    checksumGen,    \* the ChecksumGenerator: hasher, nextOffset, pending, finalized, sum
    arrived         \* history: the chunks given to UpdateWithChunk, in call order

checksum == <<checksumGen, arrived>>

\* The state of a FileWriter taken alone (internal/writer) and of the
\* goroutines that call it.
VARIABLES
    fw,             \* the FileWriter: file ("open" or "nil"), mu (the goroutine that
                    \* holds it, 0 when free), written; and pos, the position of
                    \* the underlying os.File
    disk,           \* the bytes written to the underlying file, by position; the
                    \* pre-allocated bytes never written are 0
    fwCalls,        \* per calling goroutine: its call of WriteAt or Close
    fwHist          \* history: bytes of the successful writes, closes of the
                    \* underlying file, calls begun, a Close has returned

fwriter == <<fw, disk, fwCalls, fwHist>>

\* The state of a SequentialGenerator taken alone (pkg/generator) and of the
\* goroutines that call Generate on it.
VARIABLES
    seqGen,         \* the SequentialGenerator: counter, mu (the goroutine that holds
                    \* it, 0 when free)
    genCalls,       \* per calling goroutine: its call of Generate
    genDone         \* history: the calls that have returned, in the order of return

seqgen == <<seqGen, genCalls, genDone>>

\* The goroutines that call WorkerPool.Wait and WorkerPool.Shutdown on a
\* started pool (internal/worker/pool.go).
VARIABLES
    poolCalls,      \* per caller: the method it is in and its position there
    poolHist        \* history: calls started, close statements executed, panic

poolapi == <<poolCalls, poolHist>>

\* The bytes that travel through the pipeline when its generator is the
\* SequentialGenerator.
VARIABLES
    bufBytes,       \* the bytes of the buffer filled for a work item, by its offset
    fileBytes       \* the bytes of the output file, by position, where written

content == <<bufBytes, fileBytes>>

\* The state of a MixedGenerator taken alone (pkg/generator) and of the calls
\* of Generate on it.
VARIABLES
    mixedGen,       \* the MixedGenerator: chunkSize, isRandom, currentPos
    mixCalls,       \* history: the calls of Generate, their buffer length and result
    mixStream       \* history: the buffers filled by the calls that returned nil,
                    \* one after the other; of each byte, the generator that wrote it

mixed == <<mixedGen, mixCalls, mixStream>>

\* The state of a ProgressReporter taken alone (internal/progress) and of the
\* goroutines that call it.
VARIABLES
    reporter,       \* the ProgressReporter: running, done (closed or not), mu (the
                    \* goroutine that holds it, 0 when free), showProgress
    loops,          \* the progressLoop goroutines started, each one's position
    prCalls,        \* per calling goroutine: the method it is in and its position
    prHist          \* history: calls started, close(p.done) statements executed

progressReporter == <<reporter, loops, prCalls, prHist>>

pipe == <<config, ctxDone, poolCancelled, chans, bufferPool, disp, workers, sink,
          writtenBytes, file, shState, sigPc, monPc, mainPc, outcome, hist>>
objects == <<checksum, fwriter, seqgen, poolapi, content, mixed, progressReporter>>
vars == <<pipe, handler, objects>>

\* NewChecksumGenerator: nothing hashed, the next offset to fold is 0, no
\* chunk is held back, no digest is finalized. The state of SHA-256 is
\* the sequence of the bytes written to it.
ChecksumNew ==
    /\ checksumGen = [hasher |-> <<>>, nextOffset |-> 0, pending |-> {},
                      finalized |-> FALSE, sum |-> <<>>]
    /\ arrived = <<>>

\* The goroutines that call the FileWriter.
Callers == 1..MaxCallers

\* A goroutine that is not inside a call.
\* The chunk size of a MixedGenerator made with none.
DefaultChunk == 1024

NoCall == [pc |-> "idle", op |-> "none", data |-> <<>>, offset |-> 0, ret |-> "none",
           afterClose |-> FALSE, closesBefore |-> 0]

\* NewFileWriter: the file is open and pre-allocated, nothing is written.
FileWriterNew ==
    /\ fw = [file |-> "open", mu |-> 0, written |-> 0, pos |-> 0]
    /\ disk = <<>>
    /\ fwCalls = [c \in Callers |-> NoCall]
    /\ fwHist = [okBytes |-> 0, closes |-> 0, begun |-> 0, writes |-> 0,
                 closeReturned |-> FALSE]

\* A goroutine that is not inside Generate.
NoGenerate == [pc |-> "idle", buffer |-> <<>>, startValue |-> 0]

\* &SequentialGenerator{}: the counter is 0.
SequentialNew ==
    /\ seqGen = [counter |-> 0, mu |-> 0]
    /\ genCalls = [c \in Callers |-> NoGenerate]
    /\ genDone = <<>>

\* No goroutine has called Wait or Shutdown yet.
NoPoolCall == [pc |-> "idle", op |-> "none"]

PoolCallsNew ==
    /\ poolCalls = [c \in Callers |-> NoPoolCall]
    /\ poolHist = [started |-> 0, closedResult |-> 0, closedError |-> 0, panicked |-> FALSE]

\* No buffer has been filled and nothing is in the file.
ContentNew ==
    /\ bufBytes = <<>>
    /\ fileBytes = <<>>

\* NewMixedGenerator(chunkSize): if chunkSize <= 0 { chunkSize = 1024 };
\* isRandom: true, currentPos 0.
NewMixedGenerator(c) ==
    [chunkSize |-> IF c <= 0 THEN DefaultChunk ELSE c, isRandom |-> TRUE, currentPos |-> 0]

MixedNew(c) ==
    /\ mixedGen = NewMixedGenerator(c)
    /\ mixCalls = <<>>
    /\ mixStream = <<>>

\* No goroutine is calling the reporter.
NoReporterCall == [pc |-> "idle", op |-> "none", ret |-> "none"]

\* NewProgressReporter(totalSize, verbose, writer): done is open, running is
\* false; show is totalSize >= 1 GB || verbose.
ReporterNew(show) ==
    /\ reporter = [running |-> FALSE, done |-> "open", mu |-> 0, showProgress |-> show]
    /\ loops = <<>>
    /\ prCalls = [c \in Callers |-> NoReporterCall]
    /\ prHist = [started |-> 0, closes |-> 0]

\* The stand-alone objects other than the generator of the pattern "mixed"
\* and the progress reporter.
SharedObjectsNew ==
    ChecksumNew /\ FileWriterNew /\ SequentialNew /\ PoolCallsNew /\ ContentNew

\* The stand-alone objects as constructed; NewGenerator("mixed") is
\* NewMixedGenerator(1024).
ObjectsNew == SharedObjectsNew /\ MixedNew(DefaultChunk) /\ ReporterNew(FALSE)

\* NewShutdownHandler: the handler as constructed, nothing registered, not started.
HandlerNew ==
    /\ parentDone = FALSE
    /\ cancelled = FALSE
    /\ sigChan = 0
    /\ cleanupFns = <<>>
    /\ writer = FALSE
    /\ progress = "nil"
    /\ output = <<>>
    /\ mu = FALSE
    /\ isShutdown = FALSE
    /\ shutdownOnce = "idle"
    /\ cleanupIdx = 0
    /\ started = FALSE
    /\ loopPc = "none"
    /\ stopCalling = 0
    /\ stopReturned = 0
    /\ waitPc = "idle"
    /\ calls = <<>>
    /\ entered = 0
    /\ regAtShutdown = 0

Patterns == {"zero", "random"}

\* p.ctx.Done() is readable: the pool's context is a child of the handler's.
PoolDone == ctxDone \/ poolCancelled

\* Mutant: the queues hold four items per worker.
ChanCapDouble == numWorkers * 4

\* make(chan workItem, numWorkers*2), make(chan resultItem, numWorkers*2)
ChanCap == numWorkers * 2

\* Mutant: the error channel holds one error less than there are workers.
ErrorCapSmall == numWorkers - 1

\* make(chan error, numWorkers)
ErrorCap == numWorkers

NoWork == [offset |-> 0, size |-> 0]
NoResult == [buffer |-> 0, offset |-> 0]

\* A worker goroutine at the top of its loop, and one that has returned.
\* firstFailure (history) marks the worker whose Generate was the first of the
\* run to fail, if the pool's context was not cancelled when it failed.
IdleWorker == [pc |-> "select", work |-> NoWork, bufferPtr |-> 0, buffer |-> 0,
               firstFailure |-> FALSE]
ExitedWorker == [pc |-> "exited", work |-> NoWork, bufferPtr |-> 0, buffer |-> 0,
                 firstFailure |-> FALSE]

RECURSIVE BagOfN(_, _)
BagOfN(e, n) == IF n = 0 THEN EmptyBag ELSE BagOfN(e, n - 1) (+) SetToBag({e})

\* The pipeline and the shutdown handler of a run, as constructed.
PipelineNew(W, C, T, P) ==
    /\ numWorkers = W
    /\ chunkSize = C
    /\ totalSize = T
    /\ pattern = P
    /\ ctxDone = FALSE
    /\ poolCancelled = FALSE
    /\ workChan = <<>>
    /\ workClosed = FALSE
    /\ resultChan = <<>>
    /\ resultClosed = FALSE
    /\ errorChan = 0
    /\ errorClosed = FALSE
    /\ bufferPool = EmptyBag
    /\ dispPc = "run"
    /\ offset = 0
    /\ workers = BagOfN(IdleWorker, W)
    /\ sinkPc = "select"
    /\ result = NoResult
    /\ writtenBytes = 0
    /\ fileOpen = TRUE
    /\ written = 0
    /\ extents = {}
    /\ shState = "running"
    /\ sigPc = "wait"
    /\ monPc = "select"
    /\ mainPc = "poolWait"
    /\ outcome = "none"
    /\ emitted = <<>>
    /\ published = EmptyBag
    /\ acquired = EmptyBag
    /\ released = EmptyBag
    /\ HandlerNew

\* The state of a run of W workers after construction and Start.
InitRun(W, C, T, P) == PipelineNew(W, C, T, P) /\ ObjectsNew

\* The runs explored: every small configuration with the random generator,
\* whose Generate can fail (a run of another generator behaves as one of these
\* in which it does not fail), and the 10 KB file in 4 KB chunks with the zero
\* generator of the end-to-end test.
SmallRuns == (1..MaxChunk) \X (1..MaxTotal) \X {"random"}
Runs == SmallRuns \cup {<<4096, 10240, "zero">>}

Init ==
    \E W \in 1..MaxWorkers, r \in Runs : InitRun(W, r[1], r[2], r[3])

\* The small configurations alone, for the runs checked for termination.
InitSmall ==
    \E W \in 1..MaxWorkers, r \in SmallRuns : InitRun(W, r[1], r[2], r[3])

\* The worker counts of the concurrency tests, with totalSize an exact
\* multiple of chunkSize.
WorkerCounts == {1, 2, 4, 16}

InitConc ==
    \E W \in WorkerCounts, k \in 1..MaxMultiple, P \in Patterns :
        InitRun(W, MaxChunk, k * MaxChunk, P)

\* One worker and more work items than the queues, the worker and the sink
\* can hold together.
InitBacklog == InitRun(1, 1, MaxItems, "random")

----------------------------------------------------------------------------
\* distributeWork

\* Mutant: the last item is not truncated to the remainder.
NextSizeFull(off) == chunkSize

\* size := p.chunkSize; if remaining := totalSize - offset; remaining < size { size = remaining }
NextSize(off) == IF totalSize - off < chunkSize THEN totalSize - off ELSE chunkSize

\* Mutant: the offset advances although the work channel is full and the
\* item was not sent.
DistributeSendSkips ==
    /\ dispPc = "run"
    /\ offset < totalSize
    /\ IF Len(workChan) < ChanCap
       THEN /\ workChan' = Append(workChan, [offset |-> offset, size |-> NextSize(offset)])
            /\ emitted' = Append(emitted, [offset |-> offset, size |-> NextSize(offset)])
       ELSE UNCHANGED <<workChan, emitted>>
    /\ offset' = offset + NextSize(offset)
    /\ UNCHANGED <<handler, objects, config, ctxDone, poolCancelled, workClosed, resultChan, resultClosed,
                   errorChan, errorClosed, bufferPool, dispPc, workers, sink,
                   writtenBytes, file, shState, sigPc, monPc, mainPc, outcome, hist>>

\* case p.workChan <- workItem{offset: offset, size: size}: offset += size
DistributeSend ==
    /\ dispPc = "run"
    /\ offset < totalSize
    /\ Len(workChan) < ChanCap
    /\ workChan' = Append(workChan, [offset |-> offset, size |-> NextSize(offset)])
    /\ emitted' = Append(emitted, [offset |-> offset, size |-> NextSize(offset)])
    /\ offset' = offset + NextSize(offset)
    /\ UNCHANGED <<handler, objects, config, ctxDone, poolCancelled, workClosed, resultChan, resultClosed,
                   errorChan, errorClosed, bufferPool, dispPc, workers, sink,
                   writtenBytes, file, shState, sigPc, monPc, mainPc, outcome, hist>>

\* Mutant: the dispatcher notices the cancellation only when the work
\* channel has room.
DistributeCancelIfRoom ==
    /\ dispPc = "run"
    /\ offset < totalSize
    /\ PoolDone
    /\ Len(workChan) < ChanCap
    /\ dispPc' = "done"
    /\ workClosed' = TRUE
    /\ UNCHANGED <<handler, objects, config, ctxDone, poolCancelled, workChan, resultChan, resultClosed,
                   errorChan, errorClosed, bufferPool, offset, emitted, workers, sink,
                   writtenBytes, file, shState, sigPc, monPc, mainPc, outcome, hist>>

\* case <-p.ctx.Done(): return  (with the deferred close(p.workChan))
DistributeCancel ==
    /\ dispPc = "run"
    /\ offset < totalSize
    /\ PoolDone
    /\ dispPc' = "done"
    /\ workClosed' = TRUE
    /\ UNCHANGED <<handler, objects, config, ctxDone, poolCancelled, workChan, resultChan, resultClosed,
                   errorChan, errorClosed, bufferPool, offset, emitted, workers, sink,
                   writtenBytes, file, shState, sigPc, monPc, mainPc, outcome, hist>>

\* the loop condition offset < totalSize fails: return, close(p.workChan)
DistributeFinish ==
    /\ dispPc = "run"
    /\ offset >= totalSize
    /\ dispPc' = "done"
    /\ workClosed' = TRUE
    /\ UNCHANGED <<handler, objects, config, ctxDone, poolCancelled, workChan, resultChan, resultClosed,
                   errorChan, errorClosed, bufferPool, offset, emitted, workers, sink,
                   writtenBytes, file, shState, sigPc, monPc, mainPc, outcome, hist>>

----------------------------------------------------------------------------
\* The buffer pool (sync.Pool)

\* bufferPool.Get(): any idle buffer of the pool, or a buffer made by New
\* (make([]byte, chunkSize)); a sync.Pool is free not to find an idle one.
PoolChoices == BagToSet(bufferPool) \cup {chunkSize}

\* p.bufferPool.Put(bufferPtr) in the worker: *bufferPtr still has the length
\* the buffer had when it was taken from the pool.
WorkerPut(w) == bufferPool (+) SetToBag({w.bufferPtr})

\* func (p *WorkerPool) ReturnBuffer(buffer []byte) { p.bufferPool.Put(&buffer) }
\* The slice header that is stored has the length of the slice passed in.
ReturnBuffer(buffer) == bufferPool (+) SetToBag({buffer})

----------------------------------------------------------------------------
\* WorkerPool.worker

Move(w, v) == workers' = (workers (-) SetToBag({w})) (+) SetToBag({v})

\* if work.size < int64(len(buffer)) { buffer = buffer[:work.size] }
Slice(len, size) == IF size < len THEN size ELSE len

\* gen.Generate(buffer): the zero generator cannot fail, rand.Read can.
GenerateOutcomes == IF pattern = "zero" THEN {"ok"} ELSE {"ok", "err"}

\* case <-p.ctx.Done(): return
WorkerCancelled(w) ==
    /\ w.pc = "select"
    /\ PoolDone
    /\ Move(w, ExitedWorker)
    /\ UNCHANGED <<handler, objects, config, ctxDone, poolCancelled, chans, bufferPool, disp, sink,
                   writtenBytes, file, shState, sigPc, monPc, mainPc, outcome, hist>>

\* case work, ok := <-p.workChan: if !ok { return }
WorkerClosed(w) ==
    /\ w.pc = "select"
    /\ workClosed
    /\ workChan = <<>>
    /\ Move(w, ExitedWorker)
    /\ UNCHANGED <<handler, objects, config, ctxDone, poolCancelled, chans, bufferPool, disp, sink,
                   writtenBytes, file, shState, sigPc, monPc, mainPc, outcome, hist>>

\* case work, ok := <-p.workChan: with ok
WorkerReceive(w) ==
    /\ w.pc = "select"
    /\ workChan # <<>>
    /\ workChan' = Tail(workChan)
    /\ Move(w, [w EXCEPT !.pc = "getbuf", !.work = Head(workChan)])
    /\ UNCHANGED <<handler, objects, config, ctxDone, poolCancelled, workClosed, resultChan, resultClosed,
                   errorChan, errorClosed, bufferPool, disp, sink,
                   writtenBytes, file, shState, sigPc, monPc, mainPc, outcome, hist>>

\* bufferPtr := p.bufferPool.Get().(*[]byte); buffer := *bufferPtr; resize
WorkerGetBuffer(w) ==
    /\ w.pc = "getbuf"
    /\ \E b \in PoolChoices :
        /\ \/ /\ BagIn(b, bufferPool)
              /\ bufferPool' = bufferPool (-) SetToBag({b})
           \/ /\ b = chunkSize
              /\ bufferPool' = bufferPool
        /\ Move(w, [w EXCEPT !.pc = "generate", !.bufferPtr = b,
                             !.buffer = Slice(b, w.work.size)])
    /\ acquired' = acquired (+) SetToBag({w.work.offset})
    /\ UNCHANGED <<handler, objects, config, ctxDone, poolCancelled, chans, disp, sink,
                   writtenBytes, file, shState, sigPc, monPc, mainPc, outcome,
                   published, released>>

\* if err := gen.Generate(buffer); err != nil
WorkerGenerate(w) ==
    /\ w.pc = "generate"
    /\ \E r \in GenerateOutcomes :
        Move(w, [w EXCEPT !.pc = IF r = "ok" THEN "send" ELSE "generr",
                          !.firstFailure = /\ r = "err"
                                           /\ ~PoolDone
                                           /\ \A v \in BagToSet(workers) : v.pc # "generr"])
    /\ UNCHANGED <<handler, objects, config, ctxDone, poolCancelled, chans, bufferPool, disp, sink,
                   writtenBytes, file, shState, sigPc, monPc, mainPc, outcome, hist>>

\* Mutant: the failing worker returns without cancelling the pool's context.
WorkerReportErrorNoCancel(w) ==
    /\ w.pc = "generr"
    /\ \/ /\ errorChan < ErrorCap
          /\ ~errorClosed
          /\ errorChan' = errorChan + 1
       \/ /\ PoolDone
          /\ errorChan' = errorChan
    /\ poolCancelled' = poolCancelled
    /\ bufferPool' = WorkerPut(w)
    /\ released' = released (+) SetToBag({w.work.offset})
    /\ Move(w, ExitedWorker)
    /\ UNCHANGED <<handler, objects, config, ctxDone, workChan, workClosed, resultChan, resultClosed,
                   errorClosed, disp, sink, writtenBytes, file, shState, sigPc, monPc,
                   mainPc, outcome, published, acquired>>

\* select { case p.errorChan <- err: case <-p.ctx.Done(): }
\* p.cancel(); p.bufferPool.Put(bufferPtr); return
WorkerReportError(w) ==
    /\ w.pc = "generr"
    /\ \/ /\ errorChan < ErrorCap
          /\ ~errorClosed
          /\ errorChan' = errorChan + 1
       \/ /\ PoolDone
          /\ errorChan' = errorChan
    /\ poolCancelled' = TRUE
    /\ bufferPool' = WorkerPut(w)
    /\ released' = released (+) SetToBag({w.work.offset})
    /\ Move(w, ExitedWorker)
    /\ UNCHANGED <<handler, objects, config, ctxDone, workChan, workClosed, resultChan, resultClosed,
                   errorClosed, disp, sink, writtenBytes, file, shState, sigPc, monPc,
                   mainPc, outcome, published, acquired>>

\* Mutant: the worker notices the cancellation only when the result channel
\* has room.
WorkerSendCancelledIfRoom(w) ==
    /\ w.pc = "send"
    /\ PoolDone
    /\ Len(resultChan) < ChanCap
    /\ bufferPool' = WorkerPut(w)
    /\ released' = released (+) SetToBag({w.work.offset})
    /\ Move(w, ExitedWorker)
    /\ UNCHANGED <<handler, objects, config, ctxDone, poolCancelled, chans, disp, sink,
                   writtenBytes, file, shState, sigPc, monPc, mainPc, outcome,
                   published, acquired>>

\* Mutant: on cancellation the worker puts the buffer back and publishes the
\* result all the same.
WorkerSendCancelledAndSent(w) ==
    /\ w.pc = "send"
    /\ PoolDone
    /\ Len(resultChan) < ChanCap
    /\ ~resultClosed
    /\ bufferPool' = WorkerPut(w)
    /\ released' = released (+) SetToBag({w.work.offset})
    /\ resultChan' = Append(resultChan, [buffer |-> w.buffer, offset |-> w.work.offset])
    /\ published' = published (+) SetToBag({[buffer |-> w.buffer, offset |-> w.work.offset]})
    /\ Move(w, ExitedWorker)
    /\ UNCHANGED <<handler, objects, config, ctxDone, poolCancelled, workChan, workClosed, resultClosed,
                   errorChan, errorClosed, disp, sink,
                   writtenBytes, file, shState, sigPc, monPc, mainPc, outcome, acquired>>

\* Mutant: the worker gives up the send and returns although the context is
\* not cancelled.
WorkerSendDropped(w) ==
    /\ w.pc = "send"
    /\ bufferPool' = WorkerPut(w)
    /\ released' = released (+) SetToBag({w.work.offset})
    /\ Move(w, ExitedWorker)
    /\ UNCHANGED <<handler, objects, config, ctxDone, poolCancelled, chans, disp, sink,
                   writtenBytes, file, shState, sigPc, monPc, mainPc, outcome,
                   published, acquired>>

\* select { case <-p.ctx.Done(): p.bufferPool.Put(bufferPtr); return
WorkerSendCancelled(w) ==
    /\ w.pc = "send"
    /\ PoolDone
    /\ bufferPool' = WorkerPut(w)
    /\ released' = released (+) SetToBag({w.work.offset})
    /\ Move(w, ExitedWorker)
    /\ UNCHANGED <<handler, objects, config, ctxDone, poolCancelled, chans, disp, sink,
                   writtenBytes, file, shState, sigPc, monPc, mainPc, outcome,
                   published, acquired>>

\* Mutant: the worker publishes the result and puts the buffer back as well.
WorkerSendAndPut(w) ==
    /\ w.pc = "send"
    /\ Len(resultChan) < ChanCap
    /\ ~resultClosed
    /\ resultChan' = Append(resultChan, [buffer |-> w.buffer, offset |-> w.work.offset])
    /\ published' = published (+) SetToBag({[buffer |-> w.buffer, offset |-> w.work.offset]})
    /\ bufferPool' = WorkerPut(w)
    /\ released' = released (+) SetToBag({w.work.offset})
    /\ Move(w, IdleWorker)
    /\ UNCHANGED <<handler, objects, config, ctxDone, poolCancelled, workChan, workClosed, resultClosed,
                   errorChan, errorClosed, disp, sink,
                   writtenBytes, file, shState, sigPc, monPc, mainPc, outcome,
                   acquired>>

\* case p.resultChan <- resultItem{buffer: buffer, offset: work.offset}:
WorkerSend(w) ==
    /\ w.pc = "send"
    /\ Len(resultChan) < ChanCap
    /\ ~resultClosed
    /\ resultChan' = Append(resultChan, [buffer |-> w.buffer, offset |-> w.work.offset])
    /\ published' = published (+) SetToBag({[buffer |-> w.buffer, offset |-> w.work.offset]})
    /\ Move(w, IdleWorker)
    /\ UNCHANGED <<handler, objects, config, ctxDone, poolCancelled, workChan, workClosed, resultClosed,
                   errorChan, errorClosed, bufferPool, disp, sink,
                   writtenBytes, file, shState, sigPc, monPc, mainPc, outcome,
                   acquired, released>>

----------------------------------------------------------------------------
\* ShutdownHandler (internal/signal/handler.go)

\* initiateShutdown, first caller: shutdownOnce.Do enters, isShutdown = true, h.cancel()
InitiateShutdown ==
    /\ shState = "running"
    /\ shState' = "cancelled"
    /\ ctxDone' = TRUE

\* performCleanup inside the Once: the registered cleanup runs fileWriter.Close(),
\* which sets w.file = nil whether or not Sync fails.
PerformCleanup ==
    /\ shState = "cancelled"
    /\ shState' = "done"
    /\ fileOpen' = FALSE
    /\ UNCHANGED <<handler, objects, config, ctxDone, poolCancelled, chans, bufferPool, disp, workers, sink,
                   writtenBytes, written, extents, sigPc, monPc, mainPc, outcome, hist>>

\* signalLoop: case sig := <-h.sigChan (a SIGINT/SIGTERM is delivered), or
\* case <-h.ctx.Done(); both call initiateShutdown.
SignalLoop ==
    /\ sigPc = "wait"
    /\ sigPc' = "shutdown"
    /\ \/ InitiateShutdown
       \/ /\ ctxDone
          /\ UNCHANGED <<shState, ctxDone>>
    /\ UNCHANGED <<handler, objects, config, poolCancelled, chans, bufferPool, disp, workers, sink,
                   writtenBytes, file, monPc, mainPc, outcome, hist>>

\* signalLoop returns once shutdownOnce.Do has returned.
SignalReturn ==
    /\ sigPc = "shutdown"
    /\ shState = "done"
    /\ sigPc' = "exited"
    /\ UNCHANGED <<handler, objects, config, ctxDone, poolCancelled, chans, bufferPool, disp, workers, sink,
                   writtenBytes, file, shState, monPc, mainPc, outcome, hist>>

----------------------------------------------------------------------------
\* FileWriter (internal/writer)

\* FileWriter.WriteAt(data, offset): nil for empty data; an error when the
\* writer is closed or the range is outside the file; otherwise Seek and Write
\* may fail.
WriteAtOutcomes(data, off) ==
    IF data = 0 THEN {"empty"}
    ELSE IF ~fileOpen THEN {"err"}
    ELSE IF off < 0 \/ off + data > totalSize THEN {"err"}
    ELSE {"ok", "err"}

----------------------------------------------------------------------------
\* The result sink goroutine of runTrasher

\* checksumGen.UpdateWithChunk(result.Buffer, result.Offset) returns an error or nil.
UpdateOutcomes == {"ok", "err"}

\* case <-ctx.Done(): return
SinkCancelled ==
    /\ sinkPc = "select"
    /\ ctxDone
    /\ sinkPc' = "exited"
    /\ UNCHANGED <<handler, objects, config, ctxDone, poolCancelled, chans, bufferPool, disp, workers, result,
                   writtenBytes, file, shState, sigPc, monPc, mainPc, outcome, hist>>

\* case result, ok := <-workerPool.Results(): if !ok { return }
SinkClosed ==
    /\ sinkPc = "select"
    /\ resultClosed
    /\ resultChan = <<>>
    /\ sinkPc' = "exited"
    /\ UNCHANGED <<handler, objects, config, ctxDone, poolCancelled, chans, bufferPool, disp, workers, result,
                   writtenBytes, file, shState, sigPc, monPc, mainPc, outcome, hist>>

\* case result, ok := <-workerPool.Results(): with ok
SinkReceive ==
    /\ sinkPc = "select"
    /\ resultChan # <<>>
    /\ result' = Head(resultChan)
    /\ resultChan' = Tail(resultChan)
    /\ sinkPc' = "checksum"
    /\ UNCHANGED <<handler, objects, config, ctxDone, poolCancelled, workChan, workClosed, resultClosed,
                   errorChan, errorClosed, bufferPool, disp, workers,
                   writtenBytes, file, shState, sigPc, monPc, mainPc, outcome, hist>>

\* if err := checksumGen.UpdateWithChunk(...); err != nil { ... }
SinkChecksum ==
    /\ sinkPc = "checksum"
    /\ \E r \in UpdateOutcomes :
        sinkPc' = IF r = "ok" THEN "write" ELSE "stopChecksum"
    /\ UNCHANGED <<handler, objects, config, ctxDone, poolCancelled, chans, bufferPool, disp, workers, result,
                   writtenBytes, file, shState, sigPc, monPc, mainPc, outcome, hist>>

\* Mutant: the sink goes on to count the bytes after a failed write.
SinkWriteIgnoresError ==
    /\ sinkPc = "write"
    /\ \E r \in WriteAtOutcomes(result.buffer, result.offset) :
        /\ sinkPc' = "count"
        /\ IF r = "ok"
           THEN /\ written' = written + result.buffer
                /\ extents' = extents \cup {[offset |-> result.offset, len |-> result.buffer]}
           ELSE UNCHANGED <<written, extents>>
    /\ UNCHANGED <<handler, objects, config, ctxDone, poolCancelled, chans, bufferPool, disp, workers, result,
                   writtenBytes, fileOpen, shState, sigPc, monPc, mainPc, outcome, hist>>

\* if err := fileWriter.WriteAt(result.Buffer, result.Offset); err != nil { ... }
SinkWrite ==
    /\ sinkPc = "write"
    /\ \E r \in WriteAtOutcomes(result.buffer, result.offset) :
        /\ sinkPc' = IF r = "err" THEN "stopWrite" ELSE "count"
        /\ IF r = "ok"
           THEN /\ written' = written + result.buffer
                /\ extents' = extents \cup {[offset |-> result.offset, len |-> result.buffer]}
           ELSE UNCHANGED <<written, extents>>
    /\ UNCHANGED <<handler, objects, config, ctxDone, poolCancelled, chans, bufferPool, disp, workers, result,
                   writtenBytes, fileOpen, shState, sigPc, monPc, mainPc, outcome, hist>>

\* Mutant: the counter is advanced by the chunk size instead of len(buffer).
SinkCountChunk ==
    /\ sinkPc = "count"
    /\ writtenBytes' = writtenBytes + chunkSize
    /\ sinkPc' = "return"
    /\ UNCHANGED <<handler, objects, config, ctxDone, poolCancelled, chans, bufferPool, disp, workers, result,
                   file, shState, sigPc, monPc, mainPc, outcome, hist>>

\* atomic.AddInt64(&writtenBytes, int64(len(result.Buffer)))
SinkCount ==
    /\ sinkPc = "count"
    /\ writtenBytes' = writtenBytes + result.buffer
    /\ sinkPc' = "return"
    /\ UNCHANGED <<handler, objects, config, ctxDone, poolCancelled, chans, bufferPool, disp, workers, result,
                   file, shState, sigPc, monPc, mainPc, outcome, hist>>

\* workerPool.ReturnBuffer(result.Buffer), back to the top of the loop
SinkReturn ==
    /\ sinkPc = "return"
    /\ bufferPool' = ReturnBuffer(result.buffer)
    /\ released' = released (+) SetToBag({result.offset})
    /\ sinkPc' = "select"
    /\ result' = NoResult
    /\ UNCHANGED <<handler, objects, config, ctxDone, poolCancelled, chans, disp, workers,
                   writtenBytes, file, shState, sigPc, monPc, mainPc, outcome,
                   published, acquired>>

\* shutdownHandler.Stop() on the checksum-error and the write-error path,
\* when this call is the one that enters the Once
SinkStop ==
    /\ sinkPc \in {"stopChecksum", "stopWrite"}
    /\ InitiateShutdown
    /\ UNCHANGED <<handler, objects, config, poolCancelled, chans, bufferPool, disp, workers, sink,
                   writtenBytes, file, sigPc, monPc, mainPc, outcome, hist>>

\* Mutant: the sink returns from the failure path without calling Stop().
SinkFailReturnNoStop ==
    /\ sinkPc \in {"stopChecksum", "stopWrite"}
    /\ bufferPool' = ReturnBuffer(result.buffer)
    /\ released' = released (+) SetToBag({result.offset})
    /\ sinkPc' = "exited"
    /\ result' = NoResult
    /\ UNCHANGED <<handler, objects, config, ctxDone, poolCancelled, chans, disp, workers,
                   writtenBytes, file, shState, sigPc, monPc, mainPc, outcome,
                   published, acquired>>

\* Stop() has returned: workerPool.ReturnBuffer(result.Buffer); return
SinkFailReturn ==
    /\ sinkPc \in {"stopChecksum", "stopWrite"}
    /\ shState = "done"
    /\ bufferPool' = ReturnBuffer(result.buffer)
    /\ released' = released (+) SetToBag({result.offset})
    /\ sinkPc' = "exited"
    /\ result' = NoResult
    /\ UNCHANGED <<handler, objects, config, ctxDone, poolCancelled, chans, disp, workers,
                   writtenBytes, file, shState, sigPc, monPc, mainPc, outcome,
                   published, acquired>>

----------------------------------------------------------------------------
\* The error monitor goroutine of runTrasher

\* case <-ctx.Done(): return
MonitorCancelled ==
    /\ monPc = "select"
    /\ ctxDone
    /\ monPc' = "exited"
    /\ UNCHANGED <<handler, objects, config, ctxDone, poolCancelled, chans, bufferPool, disp, workers, sink,
                   writtenBytes, file, shState, sigPc, mainPc, outcome, hist>>

\* case err, ok := <-workerPool.Errors(): if !ok { return }
MonitorClosed ==
    /\ monPc = "select"
    /\ errorClosed
    /\ errorChan = 0
    /\ monPc' = "exited"
    /\ UNCHANGED <<handler, objects, config, ctxDone, poolCancelled, chans, bufferPool, disp, workers, sink,
                   writtenBytes, file, shState, sigPc, mainPc, outcome, hist>>

\* case err, ok := <-workerPool.Errors(): if err != nil { ... }
MonitorReceive ==
    /\ monPc = "select"
    /\ errorChan > 0
    /\ errorChan' = errorChan - 1
    /\ monPc' = "stop"
    /\ UNCHANGED <<handler, objects, config, ctxDone, poolCancelled, workChan, workClosed, resultChan,
                   resultClosed, errorClosed, bufferPool, disp, workers, sink,
                   writtenBytes, file, shState, sigPc, mainPc, outcome, hist>>

\* shutdownHandler.Stop(), when this call is the one that enters the Once
MonitorStop ==
    /\ monPc = "stop"
    /\ InitiateShutdown
    /\ UNCHANGED <<handler, objects, config, poolCancelled, chans, bufferPool, disp, workers, sink,
                   writtenBytes, file, sigPc, monPc, mainPc, outcome, hist>>

\* Stop() has returned: return
MonitorReturn ==
    /\ monPc = "stop"
    /\ shState = "done"
    /\ monPc' = "exited"
    /\ UNCHANGED <<handler, objects, config, ctxDone, poolCancelled, chans, bufferPool, disp, workers, sink,
                   writtenBytes, file, shState, sigPc, mainPc, outcome, hist>>

----------------------------------------------------------------------------
\* The main routine of runTrasher after it has started the goroutines

AllWorkersExited == BagToSet(workers) \subseteq {ExitedWorker}

\* workerPool.Wait(): p.wg.Wait(); close(p.resultChan); close(p.errorChan)
Wait ==
    /\ mainPc = "poolWait"
    /\ AllWorkersExited
    /\ resultClosed' = TRUE
    /\ errorClosed' = TRUE
    /\ mainPc' = "sinkWait"
    /\ UNCHANGED <<handler, objects, config, ctxDone, poolCancelled, workChan, workClosed, resultChan,
                   errorChan, bufferPool, disp, workers, sink,
                   writtenBytes, file, shState, sigPc, monPc, outcome, hist>>

\* wg.Wait(); progressReporter.Stop(); select { case <-ctx.Done(): return error; default: }
MainJoin ==
    /\ mainPc = "sinkWait"
    /\ sinkPc = "exited"
    /\ IF ctxDone
       THEN mainPc' = "returned" /\ outcome' = "cancelled"
       ELSE mainPc' = "close" /\ outcome' = outcome
    /\ UNCHANGED <<handler, objects, config, ctxDone, poolCancelled, chans, bufferPool, disp, workers, sink,
                   writtenBytes, file, shState, sigPc, monPc, hist>>

\* fileWriter.Close(): an error of Sync or Close ends the run with a failure
MainClose ==
    /\ mainPc = "close"
    /\ fileOpen' = FALSE
    /\ \E r \in IF fileOpen THEN {"ok", "err"} ELSE {"ok"} :
        IF r = "ok"
        THEN mainPc' = "checksum" /\ outcome' = outcome
        ELSE mainPc' = "returned" /\ outcome' = "error"
    /\ UNCHANGED <<handler, objects, config, ctxDone, poolCancelled, chans, bufferPool, disp, workers, sink,
                   writtenBytes, written, extents, shState, sigPc, monPc, hist>>

\* checksumGen.WriteChecksumFile(); return nil
MainFinish ==
    /\ mainPc = "checksum"
    /\ mainPc' = "returned"
    /\ \E r \in {"ok", "err"} : outcome' = IF r = "ok" THEN "success" ELSE "error"
    /\ UNCHANGED <<handler, objects, config, ctxDone, poolCancelled, chans, bufferPool, disp, workers, sink,
                   writtenBytes, file, shState, sigPc, monPc, hist>>

----------------------------------------------------------------------------
Next ==
    \/ DistributeSend
    \/ DistributeCancel
    \/ DistributeFinish
    \/ \E w \in BagToSet(workers) : WorkerCancelled(w)
    \/ \E w \in BagToSet(workers) : WorkerClosed(w)
    \/ \E w \in BagToSet(workers) : WorkerReceive(w)
    \/ \E w \in BagToSet(workers) : WorkerGetBuffer(w)
    \/ \E w \in BagToSet(workers) : WorkerGenerate(w)
    \/ \E w \in BagToSet(workers) : WorkerReportError(w)
    \/ \E w \in BagToSet(workers) : WorkerSendCancelled(w)
    \/ \E w \in BagToSet(workers) : WorkerSend(w)
    \/ SinkCancelled
    \/ SinkClosed
    \/ SinkReceive
    \/ SinkChecksum
    \/ SinkWrite
    \/ SinkCount
    \/ SinkReturn
    \/ SinkStop
    \/ SinkFailReturn
    \/ MonitorCancelled
    \/ MonitorClosed
    \/ MonitorReceive
    \/ MonitorStop
    \/ MonitorReturn
    \/ SignalLoop
    \/ SignalReturn
    \/ PerformCleanup
    \/ Wait
    \/ MainJoin
    \/ MainClose
    \/ MainFinish

Spec == Init /\ [][Next]_vars

\* The runs of the concurrency tests.
SpecConc == InitConc /\ [][Next]_vars

\* The run with a backlog of work items.
SpecBacklog == InitBacklog /\ [][Next]_vars

\* The steps of the goroutines of the worker pool, and of the caller of Wait.
DispatcherStep == DistributeSend \/ DistributeCancel \/ DistributeFinish

WorkerStep ==
    \E w \in BagToSet(workers) :
        \/ WorkerCancelled(w)
        \/ WorkerClosed(w)
        \/ WorkerReceive(w)
        \/ WorkerGetBuffer(w)
        \/ WorkerGenerate(w)
        \/ WorkerReportError(w)
        \/ WorkerSendCancelled(w)
        \/ WorkerSend(w)

\* The Go scheduler runs every goroutine that can take a step: the dispatcher,
\* the workers and the routine blocked in Wait. Nothing is assumed of the
\* consumer of the results, of the error monitor or of the signal.
FairSpec ==
    /\ InitSmall
    /\ [][Next]_vars
    /\ WF_vars(DispatcherStep)
    /\ WF_vars(WorkerStep)
    /\ WF_vars(Wait)

----------------------------------------------------------------------------
\* ShutdownHandler taken alone: registration, the three triggers of shutdown
\* (Stop, a signal, the parent context), the function run by shutdownOnce.Do
\* and a caller of Wait.

hctx == <<parentDone, cancelled>>
hreg == <<cleanupFns, writer, progress>>
hsig == <<sigChan, started, loopPc>>
hstop == <<stopCalling, stopReturned>>
honce == <<shutdownOnce, cleanupIdx, mu, isShutdown>>
hhist == <<calls, entered, regAtShutdown>>

\* h.ctx.Done() is readable: h.ctx is a child of the context given to NewShutdownHandler.
HandlerDone == parentDone \/ cancelled

Line(text, fn) == [text |-> text, fn |-> fn]
Event(op, fn) == [op |-> op, fn |-> fn]

\* SetWriter
SetWriter ==
    /\ ~mu
    /\ ~writer
    /\ writer' = TRUE
    /\ UNCHANGED <<pipe, objects, hctx, cleanupFns, progress, hsig, hstop, honce, hhist, output, waitPc>>

\* SetProgressReporter
SetProgressReporter ==
    /\ ~mu
    /\ progress = "nil"
    /\ progress' = "set"
    /\ UNCHANGED <<pipe, objects, hctx, cleanupFns, writer, hsig, hstop, honce, hhist, output, waitPc>>

\* RegisterCleanupFunc: h.cleanupFns = append(h.cleanupFns, fn), under h.mu
RegisterCleanupFunc ==
    /\ ~mu
    /\ Len(cleanupFns) < MaxCleanups
    /\ cleanupFns' = Append(cleanupFns, Len(cleanupFns) + 1)
    /\ UNCHANGED <<pipe, objects, hctx, writer, progress, hsig, hstop, honce, hhist, output, waitPc>>

\* Start: signal.Notify(h.sigChan, SIGINT, SIGTERM); go h.signalLoop()
Start ==
    /\ ~started
    /\ started' = TRUE
    /\ loopPc' = "select"
    /\ UNCHANGED <<pipe, objects, hctx, hreg, sigChan, hstop, honce, hhist, output, waitPc>>

\* The owner of the parent context cancels it.
ParentCancel ==
    /\ ~parentDone
    /\ parentDone' = TRUE
    /\ UNCHANGED <<pipe, objects, cancelled, hreg, hsig, hstop, honce, hhist, output, waitPc>>

\* A SIGINT or SIGTERM is delivered to the channel given to signal.Notify,
\* which holds one signal.
DeliverSignal ==
    /\ started
    /\ sigChan < 1
    /\ sigChan' = sigChan + 1
    /\ UNCHANGED <<pipe, objects, hctx, hreg, started, loopPc, hstop, honce, hhist, output, waitPc>>

\* Mutant: the function of shutdownOnce.Do is run again by a call that comes
\* after it has returned.
EnterOnceAgain ==
    /\ shutdownOnce \in {"idle", "done"}
    /\ shutdownOnce' = "mark"
    /\ entered' = entered + 1
    /\ regAtShutdown' = Len(cleanupFns)

\* h.shutdownOnce.Do(func() {...}): the first call starts the function
EnterOnce ==
    /\ shutdownOnce = "idle"
    /\ shutdownOnce' = "mark"
    /\ entered' = entered + 1
    /\ regAtShutdown' = Len(cleanupFns)

\* signalLoop: case sig := <-h.sigChan: fmt.Fprintf(h.output, "Received signal ...")
HandlerSignal ==
    /\ loopPc = "select"
    /\ sigChan > 0
    /\ sigChan' = sigChan - 1
    /\ output' = Append(output, Line("signal", 0))
    /\ loopPc' = "shutdown"
    /\ UNCHANGED <<pipe, objects, hctx, hreg, started, hstop, honce, hhist, waitPc>>

\* Mutant: signalLoop is woken by the handler's own cancel alone, not by the
\* cancellation of the parent context.
HandlerCtxDoneOwn ==
    /\ loopPc = "select"
    /\ cancelled
    /\ loopPc' = "shutdown"
    /\ UNCHANGED <<pipe, objects, hctx, hreg, sigChan, started, hstop, honce, hhist, output, waitPc>>

\* signalLoop: case <-h.ctx.Done():
HandlerCtxDone ==
    /\ loopPc = "select"
    /\ HandlerDone
    /\ loopPc' = "shutdown"
    /\ UNCHANGED <<pipe, objects, hctx, hreg, sigChan, started, hstop, honce, hhist, output, waitPc>>

\* signalLoop: h.initiateShutdown(), when this call is the first
HandlerLoopEnter ==
    /\ loopPc = "shutdown"
    /\ EnterOnce
    /\ UNCHANGED <<pipe, objects, hctx, hreg, hsig, hstop, cleanupIdx, mu, isShutdown, calls,
                   output, waitPc>>

\* signalLoop: initiateShutdown returns when the function of the Once has returned
HandlerLoopReturn ==
    /\ loopPc = "shutdown"
    /\ shutdownOnce = "done"
    /\ loopPc' = "exited"
    /\ UNCHANGED <<pipe, objects, hctx, hreg, sigChan, started, hstop, honce, hhist, output, waitPc>>

\* A goroutine calls Stop.
StopCall ==
    /\ stopCalling + stopReturned < MaxStops
    /\ stopCalling' = stopCalling + 1
    /\ UNCHANGED <<pipe, objects, hctx, hreg, hsig, stopReturned, honce, hhist, output, waitPc>>

\* Mutant: a call of Stop that finds shutdown complete starts it again.
StopEnterAgain ==
    /\ stopCalling > 0
    /\ shutdownOnce \in {"idle", "done"}
    /\ shutdownOnce' = "mark"
    /\ entered' = entered + 1
    /\ regAtShutdown' = Len(cleanupFns)
    /\ UNCHANGED <<pipe, objects, hctx, hreg, hsig, hstop, cleanupIdx, mu, isShutdown, calls,
                   output, waitPc>>

\* Stop: h.initiateShutdown(), when this call is the first
StopEnter ==
    /\ stopCalling > 0
    /\ EnterOnce
    /\ UNCHANGED <<pipe, objects, hctx, hreg, hsig, hstop, cleanupIdx, mu, isShutdown, calls,
                   output, waitPc>>

\* Stop returns when the function of the Once has returned.
StopReturn ==
    /\ stopCalling > 0
    /\ shutdownOnce = "done"
    /\ stopCalling' = stopCalling - 1
    /\ stopReturned' = stopReturned + 1
    /\ UNCHANGED <<pipe, objects, hctx, hreg, hsig, honce, hhist, output, waitPc>>


\* Mutant: initiateShutdown goes on to performCleanup without cancelling the
\* context.
MarkShutdownNoCancel ==
    /\ shutdownOnce = "mark"
    /\ ~mu
    /\ isShutdown' = TRUE
    /\ shutdownOnce' = "lock"
    /\ UNCHANGED <<pipe, objects, hctx, hreg, hsig, hstop, cleanupIdx, mu, hhist, output, waitPc>>

\* initiateShutdown: h.mu.Lock(); h.isShutdown = true; h.mu.Unlock()
MarkShutdown ==
    /\ shutdownOnce = "mark"
    /\ ~mu
    /\ isShutdown' = TRUE
    /\ shutdownOnce' = "cancel"
    /\ UNCHANGED <<pipe, objects, hctx, hreg, hsig, hstop, cleanupIdx, mu, hhist, output, waitPc>>

\* initiateShutdown: h.cancel()
CancelContext ==
    /\ shutdownOnce = "cancel"
    /\ cancelled' = TRUE
    /\ shutdownOnce' = "lock"
    /\ UNCHANGED <<pipe, objects, parentDone, hreg, hsig, hstop, cleanupIdx, mu, isShutdown, hhist,
                   output, waitPc>>

\* performCleanup: h.mu.Lock(), held until it returns
CleanupLock ==
    /\ shutdownOnce = "lock"
    /\ ~mu
    /\ mu' = TRUE
    /\ shutdownOnce' = "progress"
    /\ UNCHANGED <<pipe, objects, hctx, hreg, hsig, hstop, cleanupIdx, isShutdown, hhist, output,
                   waitPc>>

\* performCleanup: if h.progress != nil { h.progress.Stop() }
StopProgress ==
    /\ shutdownOnce = "progress"
    /\ progress' = IF progress = "nil" THEN "nil" ELSE "stopped"
    /\ shutdownOnce' = "report"
    /\ UNCHANGED <<pipe, objects, hctx, cleanupFns, writer, hsig, hstop, cleanupIdx, mu, isShutdown,
                   hhist, output, waitPc>>

\* reportPartialProgress: the lines printed for the writer's written and total
PartialProgress ==
    IF totalSize > 0
    THEN <<Line("interrupted", 0), Line("written", 0)>>
         \o (IF written > 0 THEN <<Line("partial", 0)>> ELSE <<>>)
    ELSE <<Line("nothing written", 0)>>

\* performCleanup: if h.writer != nil { h.reportPartialProgress() }
ReportPartialProgress ==
    /\ shutdownOnce = "report"
    /\ output' = IF writer THEN output \o PartialProgress ELSE output
    /\ shutdownOnce' = "begin"
    /\ UNCHANGED <<pipe, objects, hctx, hreg, hsig, hstop, cleanupIdx, mu, isShutdown, hhist, waitPc>>

\* Mutant: the loop starts below the function registered last.
CleanupBeginSkipsLast ==
    /\ shutdownOnce = "begin"
    /\ IF Len(cleanupFns) > 0
       THEN /\ output' = Append(output, Line("cleaning up", 0))
            /\ cleanupIdx' = Len(cleanupFns) - 1
            /\ shutdownOnce' = "loop"
       ELSE /\ UNCHANGED <<output, cleanupIdx>>
            /\ shutdownOnce' = "unlock"
    /\ UNCHANGED <<pipe, objects, hctx, hreg, hsig, hstop, mu, isShutdown, hhist, waitPc>>

\* performCleanup: if len(h.cleanupFns) > 0 { "Cleaning up resources..."; i := len - 1
CleanupBegin ==
    /\ shutdownOnce = "begin"
    /\ IF Len(cleanupFns) > 0
       THEN /\ output' = Append(output, Line("cleaning up", 0))
            /\ cleanupIdx' = Len(cleanupFns)
            /\ shutdownOnce' = "loop"
       ELSE /\ UNCHANGED <<output, cleanupIdx>>
            /\ shutdownOnce' = "unlock"
    /\ UNCHANGED <<pipe, objects, hctx, hreg, hsig, hstop, mu, isShutdown, hhist, waitPc>>

\* Mutant: the loop walks cleanupFns from the first function to the last.
CleanupCallForward ==
    /\ shutdownOnce = "loop"
    /\ cleanupIdx >= 1
    /\ calls' = Append(calls, Event("call", cleanupFns[Len(cleanupFns) - cleanupIdx + 1]))
    /\ shutdownOnce' = "fn"
    /\ UNCHANGED <<pipe, objects, hctx, hreg, hsig, hstop, cleanupIdx, mu, isShutdown, entered,
                   regAtShutdown, output, waitPc>>

\* performCleanup: for ...; i >= 0; ... { h.cleanupFns[i]() is called
CleanupCall ==
    /\ shutdownOnce = "loop"
    /\ cleanupIdx >= 1
    /\ calls' = Append(calls, Event("call", cleanupFns[cleanupIdx]))
    /\ shutdownOnce' = "fn"
    /\ UNCHANGED <<pipe, objects, hctx, hreg, hsig, hstop, cleanupIdx, mu, isShutdown, entered,
                   regAtShutdown, output, waitPc>>

\* Mutant: the error of a cleanup function is reported and ends the loop.
CleanupReturnAbort ==
    /\ shutdownOnce = "fn"
    /\ \E r \in {"ok", "err"} :
        /\ calls' = Append(calls, Event(r, cleanupFns[cleanupIdx]))
        /\ output' = IF r = "err"
                     THEN Append(output, Line("warning", cleanupFns[cleanupIdx]))
                     ELSE output
        /\ cleanupIdx' = IF r = "err" THEN 0 ELSE cleanupIdx - 1
    /\ shutdownOnce' = "loop"
    /\ UNCHANGED <<pipe, objects, hctx, hreg, hsig, hstop, mu, isShutdown, entered, regAtShutdown,
                   waitPc>>

\* The cleanup function returns: if err != nil { "Warning: cleanup error: ..." }; i--
CleanupReturn ==
    /\ shutdownOnce = "fn"
    /\ \E r \in {"ok", "err"} :
        /\ calls' = Append(calls, Event(r, cleanupFns[cleanupIdx]))
        /\ output' = IF r = "err"
                     THEN Append(output, Line("warning", cleanupFns[cleanupIdx]))
                     ELSE output
    /\ cleanupIdx' = cleanupIdx - 1
    /\ shutdownOnce' = "loop"
    /\ UNCHANGED <<pipe, objects, hctx, hreg, hsig, hstop, mu, isShutdown, entered, regAtShutdown,
                   waitPc>>

\* performCleanup: the loop ends; "Cleanup completed."
CleanupEnd ==
    /\ shutdownOnce = "loop"
    /\ cleanupIdx = 0
    /\ output' = Append(output, Line("completed", 0))
    /\ shutdownOnce' = "unlock"
    /\ UNCHANGED <<pipe, objects, hctx, hreg, hsig, hstop, cleanupIdx, mu, isShutdown, hhist, waitPc>>

\* performCleanup returns (the deferred h.mu.Unlock()), and with it the
\* function of shutdownOnce.Do
CleanupUnlock ==
    /\ shutdownOnce = "unlock"
    /\ mu' = FALSE
    /\ shutdownOnce' = "done"
    /\ UNCHANGED <<pipe, objects, hctx, hreg, hsig, hstop, cleanupIdx, isShutdown, hhist, output,
                   waitPc>>

\* A goroutine calls ShutdownHandler.Wait.
HandlerWaitCall ==
    /\ waitPc = "idle"
    /\ waitPc' = "waiting"
    /\ UNCHANGED <<pipe, objects, hctx, hreg, hsig, hstop, honce, hhist, output>>

\* Wait: <-h.ctx.Done()
HandlerWaitReturn ==
    /\ waitPc = "waiting"
    /\ HandlerDone
    /\ waitPc' = "returned"
    /\ UNCHANGED <<pipe, objects, hctx, hreg, hsig, hstop, honce, hhist, output>>

\* The steps of the goroutine that runs the function of shutdownOnce.Do.
ShutdownStep ==
    \/ MarkShutdown
    \/ CancelContext
    \/ CleanupLock
    \/ StopProgress
    \/ ReportPartialProgress
    \/ CleanupBegin
    \/ CleanupCall
    \/ CleanupReturn
    \/ CleanupEnd
    \/ CleanupUnlock

\* The steps of signalLoop.
SignalLoopStep == HandlerSignal \/ HandlerCtxDone \/ HandlerLoopEnter \/ HandlerLoopReturn

NextHandler ==
    \/ SetWriter
    \/ SetProgressReporter
    \/ RegisterCleanupFunc
    \/ Start
    \/ ParentCancel
    \/ DeliverSignal
    \/ HandlerSignal
    \/ HandlerCtxDone
    \/ HandlerLoopEnter
    \/ HandlerLoopReturn
    \/ StopCall
    \/ StopEnter
    \/ StopReturn
    \/ MarkShutdown
    \/ CancelContext
    \/ CleanupLock
    \/ StopProgress
    \/ ReportPartialProgress
    \/ CleanupBegin
    \/ CleanupCall
    \/ CleanupReturn
    \/ CleanupEnd
    \/ CleanupUnlock
    \/ HandlerWaitCall
    \/ HandlerWaitReturn

\* A handler on its own, for a writer of MaxTotal bytes that has written nothing.
InitHandler == InitRun(1, MaxChunk, MaxTotal, "zero")

SpecHandler == InitHandler /\ [][NextHandler]_vars

\* The Go scheduler runs every goroutine that can take a step: the goroutine
\* inside shutdownOnce.Do (a cleanup function returns), signalLoop, and the
\* callers of Stop. Nothing is assumed of when Stop is called, a signal is
\* delivered or the parent context is cancelled.
FairHandler ==
    /\ InitHandler
    /\ [][NextHandler]_vars
    /\ WF_vars(ShutdownStep)
    /\ WF_vars(SignalLoopStep)
    /\ WF_vars(StopEnter \/ StopReturn)

----------------------------------------------------------------------------
\* Properties

\* The run has ended: dispatcher, workers and sink have all returned.
Terminated == dispPc = "done" /\ AllWorkersExited /\ sinkPc = "exited"

\* The partition of [0, totalSize) into chunks, computed from the sizes alone.
NumChunks == (totalSize + chunkSize - 1) \div chunkSize
LastSize == IF totalSize % chunkSize # 0 THEN totalSize % chunkSize ELSE chunkSize
ExpectedItems ==
    [i \in 1..NumChunks |->
        [offset |-> (i - 1) * chunkSize,
         size |-> IF i < NumChunks THEN chunkSize ELSE LastSize]]

\* The size of the work item that was dispatched with offset o.
WorkSizeAt(o) == emitted[CHOOSE i \in 1..Len(emitted) : emitted[i].offset = o].size

\* C1: when distributeWork has returned in a run that was not cancelled, the
\* work items it sent are, in order, the consecutive disjoint chunks that
\* cover [0, totalSize): all of size chunkSize except the last, whose size is
\* totalSize mod chunkSize when that is nonzero and chunkSize otherwise.
C1_DispatchPartitions ==
    (dispPc = "done" /\ ~PoolDone) => emitted = ExpectedItems

C1_Witness ==
    /\ dispPc = "done"
    /\ ~PoolDone
    /\ Len(emitted) >= 2
    /\ emitted[Len(emitted)].size < chunkSize

\* C2: every result published on the result channel has a buffer whose length
\* is the size of the work item it was generated for.
C2_ResultLenIsWorkSize ==
    \A r \in BagToSet(published) : r.buffer = WorkSizeAt(r.offset)

\* C3: every buffer held by the pool, and every buffer a worker has obtained
\* from it, has the full configured chunk length.
C3_PoolBuffersFullLength ==
    /\ \A b \in BagToSet(bufferPool) : b = chunkSize
    /\ \A w \in BagToSet(workers) :
        w.pc \in {"generate", "generr", "send"} => w.bufferPtr = chunkSize

\* The end-to-end run: a 10 KB file in 4 KB chunks with the zero pattern.
EndToEndRun == chunkSize = 4096 /\ totalSize = 10240 /\ pattern = "zero"

\* Every byte of [0, totalSize) lies in a range that WriteAt has written.
AllBytesWritten ==
    \A b \in 0..(totalSize - 1) :
        \E e \in extents : e.offset <= b /\ b < e.offset + e.len

\* C4: an uncancelled end-to-end run that has ended has published exactly the
\* three results (0, 4096), (4096, 4096), (8192, 2048), the sink has written
\* each of them, writtenBytes is 10240 and every byte of the file was written.
C4_EndToEnd ==
    (EndToEndRun /\ Terminated /\ ~PoolDone) =>
        /\ published = SetToBag({[buffer |-> 4096, offset |-> 0],
                                 [buffer |-> 4096, offset |-> 4096],
                                 [buffer |-> 2048, offset |-> 8192]})
        /\ extents = {[offset |-> 0, len |-> 4096],
                      [offset |-> 4096, len |-> 4096],
                      [offset |-> 8192, len |-> 2048]}
        /\ writtenBytes = 10240
        /\ AllBytesWritten

\* The offsets of the chunks of [0, totalSize).
ExpectedOffsets == {(i - 1) * chunkSize : i \in 1..NumChunks}

\* C5: with totalSize an exact multiple of chunkSize, no result is published
\* twice, no two published results have the same offset, every offset is a
\* chunk offset, and when the result channel is closed in a run that was not
\* cancelled and had no generator failure, exactly totalSize/chunkSize results
\* have been published and their offsets are exactly the chunk offsets.
C5_OneResultPerChunk ==
    totalSize % chunkSize = 0 =>
        /\ \A r \in BagToSet(published) :
            /\ CopiesIn(r, published) = 1
            /\ r.offset \in ExpectedOffsets
        /\ \A r1, r2 \in BagToSet(published) : r1.offset = r2.offset => r1 = r2
        /\ (resultClosed /\ ~PoolDone) =>
            /\ BagCardinality(published) = totalSize \div chunkSize
            /\ {r.offset : r \in BagToSet(published)} = ExpectedOffsets

C5_Witness ==
    /\ numWorkers = 16
    /\ resultClosed
    /\ ~PoolDone
    /\ BagCardinality(published) = MaxMultiple

\* C6: once the dispatcher, every worker and the sink have returned, every
\* buffer a worker took from the pool has been put back.
C6_NoBufferLeak ==
    Terminated =>
        \A o \in BagToSet(acquired) : CopiesIn(o, released) = CopiesIn(o, acquired)

\* C7: a buffer is put back at most once per acquisition: each work item leads
\* to at most one Get, and to at most one Put, by the worker or by the sink.
C7_NoDoubleReturn ==
    /\ \A o \in BagToSet(acquired) : CopiesIn(o, acquired) = 1
    /\ \A o \in BagToSet(released) : CopiesIn(o, released) <= CopiesIn(o, acquired)

\* A cancelled run that has ended, in which a worker has put back a buffer it
\* did not publish and the sink has put back one it received.
C7_Witness ==
    /\ Terminated
    /\ PoolDone
    /\ \E o \in BagToSet(released) :
        \A r \in BagToSet(published) : r.offset # o
    /\ \E o \in BagToSet(released) :
        \E r \in BagToSet(published) : r.offset = o

\* C8: writtenBytes is always between 0 and totalSize, and no step decreases it.
C8_WrittenBytesBounded ==
    /\ [](0 <= writtenBytes /\ writtenBytes <= totalSize)
    /\ [][writtenBytes' >= writtenBytes]_vars

\* A run in which shutdown was triggered after the sink had counted a write.
C8_Witness ==
    /\ ctxDone
    /\ writtenBytes > 0
    /\ writtenBytes < totalSize
    /\ sinkPc = "exited"

\* C9: writtenBytes changes only in the sink's step that follows a WriteAt
\* which returned success for the result in hand, and by exactly the length of
\* that result's buffer; no other step changes it.
C9_WrittenBytesFrame ==
    /\ [](sinkPc = "count" =>
            [offset |-> result.offset, len |-> result.buffer] \in extents)
    /\ [][writtenBytes' # writtenBytes =>
            /\ sinkPc = "count"
            /\ sinkPc' = "return"
            /\ writtenBytes' = writtenBytes + result.buffer]_vars

\* A write has failed after an earlier write of the run succeeded and was
\* counted: the failed write has left the counter where it was.
C9_Witness ==
    /\ sinkPc = "stopWrite"
    /\ writtenBytes > 0
    /\ writtenBytes = written

\* C10: once the pool's context is cancelled, the dispatcher and every worker
\* eventually return and Wait closes the result channel, whatever the state of
\* the queues and whether or not the results are consumed.
C10_CancelledPoolTerminates ==
    PoolDone ~> (dispPc = "done" /\ AllWorkersExited /\ resultClosed)

\* The context is cancelled while the result queue is full and a worker is
\* blocked sending the next result.
C10_Witness ==
    /\ PoolDone
    /\ Len(resultChan) = ChanCap
    /\ \E w \in BagToSet(workers) : w.pc = "send"

----------------------------------------------------------------------------
\* Properties of the shutdown handler

\* How many times cleanup function f has been called.
CallsOf(f) == Cardinality({k \in 1..Len(calls) : calls[k].op = "call" /\ calls[k].fn = f})

\* The function of shutdownOnce.Do has returned: the handler is Done.
ShutdownComplete == shutdownOnce = "done"

\* Every cleanup function registered when shutdown was initiated has been
\* called once and has returned.
AllCleanupsRun ==
    \A f \in 1..regAtShutdown :
        /\ CallsOf(f) = 1
        /\ \E k \in 1..Len(calls) : calls[k].fn = f /\ calls[k].op \in {"ok", "err"}

\* C11: whatever the number of concurrent and repeated triggers (calls of
\* Stop, a signal, the cancellation of the parent context), the function of
\* shutdownOnce.Do starts at most once, no cleanup function is ever called
\* twice, and once shutdown is complete every cleanup function registered when
\* it was initiated has been executed exactly once.
C11_ShutdownAtMostOnce ==
    /\ entered <= 1
    /\ \A f \in 1..Len(cleanupFns) : CallsOf(f) <= 1
    /\ ShutdownComplete => AllCleanupsRun

\* Shutdown is about to complete with every cleanup function executed while
\* MaxStops calls of Stop and signalLoop, woken by a signal with the parent
\* context cancelled as well, are all inside initiateShutdown.
C11_Witness ==
    /\ shutdownOnce = "unlock"
    /\ stopCalling = MaxStops
    /\ loopPc = "shutdown"
    /\ parentDone
    /\ \E k \in 1..Len(output) : output[k].text = "signal"
    /\ regAtShutdown = MaxCleanups
    /\ AllCleanupsRun

\* The calls of the cleanup functions, in the order they were made.
Called == SelectSeq(calls, LAMBDA e : e.op = "call")

\* C12: the cleanup functions run in strict reverse registration order, one
\* at a time: a function is called only when the one called before it has
\* returned, a function called later was registered earlier, and when shutdown
\* is complete the functions f1, ..., fn registered before it was initiated
\* have been called in the order fn, ..., f1.
C12_ReverseRegistrationOrder ==
    /\ \A k \in 1..Len(calls) :
        IF calls[k].op = "call"
        THEN k = 1 \/ calls[k - 1].op # "call"
        ELSE k > 1 /\ calls[k - 1] = Event("call", calls[k].fn)
    /\ \A j, k \in 1..Len(Called) : j < k => Called[j].fn > Called[k].fn
    /\ ShutdownComplete =>
        SelectSeq(Called, LAMBDA e : e.fn <= regAtShutdown)
            = [k \in 1..regAtShutdown |-> Event("call", regAtShutdown + 1 - k)]

\* Shutdown is complete and MaxCleanups functions, all registered before it
\* was initiated, have run.
C12_Witness ==
    /\ ShutdownComplete
    /\ regAtShutdown = MaxCleanups
    /\ Len(Called) = MaxCleanups

\* C13: Wait returns only when the handler is Done: a caller of Wait has
\* returned only in states where the function of shutdownOnce.Do has returned,
\* that is after every cleanup function has finished.
C13_WaitReturnsWhenDone == waitPc = "returned" => ShutdownComplete

\* The steps of a call of Stop.
StopOperation == StopCall \/ StopEnter \/ StopReturn

\* C14: the shutdown state only moves forward and Done is final: isShutdown
\* and the cancellation of the context are never undone, a complete shutdown
\* stays complete with no further cleanup call, and a step of a Stop call
\* taken when shutdown is complete changes no field of the handler (context,
\* registrations, output, lock, Once, isShutdown) and calls no cleanup function.
C14_ShutdownMonotonic ==
    /\ [][(isShutdown => isShutdown') /\ (HandlerDone => HandlerDone')]_vars
    /\ [][ShutdownComplete =>
            ShutdownComplete' /\ isShutdown' /\ cancelled' /\ UNCHANGED hhist]_vars
    /\ [][(ShutdownComplete /\ StopOperation) =>
            UNCHANGED <<hctx, hreg, hsig, honce, hhist, output>>]_vars

\* Shutdown is complete, a call of Stop has returned and another call of Stop
\* is in progress.
C14_Witness ==
    /\ ShutdownComplete
    /\ isShutdown
    /\ stopReturned >= 1
    /\ stopCalling >= 1
    /\ Len(calls) > 0

\* The lines of the partial-progress report and of the cleanup, as opposed to
\* the line signalLoop prints when it receives a signal.
ShutdownLines == {k \in 1..Len(output) : output[k].text # "signal"}

\* C15: the context is cancelled before the partial-progress report and before
\* any cleanup function starts: h.cancel() has been called in every state where
\* performCleanup is running or has run, where a line of the report or of the
\* cleanup has been printed, or where a cleanup function has been called.
C15_CancelBeforeCleanup ==
    /\ shutdownOnce \in {"progress", "report", "begin", "loop", "fn", "unlock", "done"}
        => cancelled
    /\ ShutdownLines # {} => cancelled
    /\ calls # <<>> => cancelled

\* A cleanup function is running after the partial-progress report was
\* printed, on a handler whose parent context is not cancelled.
C15_Witness ==
    /\ shutdownOnce = "fn"
    /\ \E k \in 1..Len(output) : output[k].text = "interrupted"
    /\ ~parentDone
    /\ cancelled

\* The cleanup functions that returned an error.
FailedCleanups == {calls[k].fn : k \in {j \in 1..Len(calls) : calls[j].op = "err"}}

\* C16: a cleanup function that returns an error does not stop shutdown: its
\* error is on the handler's output as soon as it has returned, when shutdown
\* is complete every function registered before it has been called all the
\* same, and (the cleanup functions returning, the goroutines being scheduled)
\* shutdown does complete and a pending call of Stop returns.
C16_CleanupErrorReported ==
    /\ [](\A f \in FailedCleanups : \E k \in 1..Len(output) : output[k] = Line("warning", f))
    /\ [](ShutdownComplete =>
            \A f \in FailedCleanups : \A g \in 1..(f - 1) : CallsOf(g) = 1)
    /\ (FailedCleanups # {}) ~> ShutdownComplete
    /\ (FailedCleanups # {} /\ stopCalling > 0) ~> (stopReturned > 0)

\* Shutdown is complete and a call of Stop has returned although the cleanup
\* function called first returned an error; the ones registered before it ran.
C16_Witness ==
    /\ ShutdownComplete
    /\ stopReturned > 0
    /\ MaxCleanups \in FailedCleanups
    /\ \A g \in 1..(MaxCleanups - 1) : CallsOf(g) = 1

\* Shutdown has run to its end: IsShutdown() is true, the handler's context is
\* cancelled and the registered cleanup functions have been executed.
ShutdownPerformed == isShutdown /\ cancelled /\ ShutdownComplete /\ AllCleanupsRun

\* C17: on a started handler a delivered signal and the cancellation of the
\* parent context, and on any handler a call of Stop, each lead to a state
\* where IsShutdown() is true, the context is cancelled and the registered
\* cleanup functions have been executed, provided the goroutines are
\* scheduled and the cleanup functions return.
C17_TriggersLeadToShutdown ==
    /\ (started /\ sigChan > 0) ~> ShutdownPerformed
    /\ (started /\ parentDone) ~> ShutdownPerformed
    /\ (stopCalling > 0) ~> ShutdownPerformed

\* Shutdown has been performed on a started handler with MaxCleanups cleanup
\* functions, with no call of Stop and no signal: the cancellation of the
\* parent context alone started it.
C17_Witness ==
    /\ ShutdownPerformed
    /\ started
    /\ parentDone
    /\ stopCalling = 0
    /\ stopReturned = 0
    /\ sigChan = 0
    /\ \A k \in 1..Len(output) : output[k].text # "signal"
    /\ regAtShutdown = MaxCleanups

----------------------------------------------------------------------------
\* Properties of the failure of a generator

\* The error send of a failing worker never blocks: whenever a worker stands
\* at the select that sends its error, the error channel is open and has room.
ErrorSendNeverBlocks ==
    \A w \in BagToSet(workers) : w.pc = "generr" => errorChan < ErrorCap /\ ~errorClosed

\* C18 as stated: the error send never blocks, and the error of the first
\* failing worker, whose Generate failed while the pool's context was not
\* cancelled, is sent on the error channel when that worker leaves the select.
C18_FirstErrorNotDropped ==
    /\ []ErrorSendNeverBlocks
    /\ [][\A w \in BagToSet(workers) :
            (w.firstFailure /\ WorkerReportError(w)) => errorChan' = errorChan + 1]_vars

\* C18 with the time of the condition made precise: the error send never
\* blocks, and a failing worker that takes its select while the pool's context
\* is still not cancelled sends its error; the first worker to do so is the
\* one that cancels the pool, so its error is not dropped.
C18_ErrorSentUnlessCancelled ==
    /\ []ErrorSendNeverBlocks
    /\ [][\A w \in BagToSet(workers) :
            (~PoolDone /\ WorkerReportError(w)) => errorChan' = errorChan + 1]_vars

\* Every worker of a pool of two has failed and has sent its error: the
\* channel is full, nobody has read it, and the pool is cancelled.
C18_Witness ==
    /\ numWorkers = MaxWorkers
    /\ errorChan = ErrorCap
    /\ poolCancelled
    /\ ~ctxDone
    /\ AllWorkersExited

\* A worker stands at the error select: its Generate has failed.
GeneratorFailed == \E w \in BagToSet(workers) : w.pc = "generr"

\* The pool has unwound: dispatcher and workers have returned, the work
\* channel is closed.
PoolUnwound == dispPc = "done" /\ workClosed /\ AllWorkersExited

\* C19, fail-fast: a worker whose Generate failed has published no result for
\* its work item and the item is not in the work channel; the step in which it
\* reports the failure publishes nothing, puts nothing back on the work channel
\* and cancels the pool's context; no work item is ever taken up twice; and,
\* the goroutines of the pool being scheduled, the failure leads to a cancelled
\* pool whose dispatcher and workers have all returned, the work channel closed.
C19_FailFast ==
    /\ [](\A w \in BagToSet(workers) : w.pc = "generr" =>
            /\ \A r \in BagToSet(published) : r.offset # w.work.offset
            /\ \A k \in 1..Len(workChan) : workChan[k].offset # w.work.offset)
    /\ [][\A w \in BagToSet(workers) : WorkerReportError(w) =>
            /\ published' = published
            /\ resultChan' = resultChan
            /\ workChan' = workChan
            /\ poolCancelled']_vars
    /\ [](\A o \in BagToSet(acquired) : CopiesIn(o, acquired) = 1)
    /\ GeneratorFailed ~> (poolCancelled /\ PoolUnwound)

\* A generator failure, and nothing else, has cancelled the pool while the
\* dispatcher still had work to send, and the pool has unwound.
C19_Witness ==
    /\ poolCancelled
    /\ ~ctxDone
    /\ PoolUnwound
    /\ offset < totalSize
    /\ numWorkers = MaxWorkers

\* C20: when the Generate of some worker has failed (only such a worker calls
\* p.cancel(), so poolCancelled records it), runTrasher does not take the
\* success path: it does not go on to write the checksum file and it does not
\* return success.
C20_NoSuccessAfterFailure ==
    poolCancelled => mainPc # "checksum" /\ outcome # "success"

----------------------------------------------------------------------------
\* Properties of the outcome of a run and of the result sink

\* The handler's context was cancelled by a Stop that followed an error (of a
\* generator, of the checksum or of a write): no signal was received, for
\* signalLoop has not left its select.
AbortedByError == ctxDone /\ sigPc = "wait"

\* C21: the outcome tells failure from cancellation: a run aborted by an error
\* does not return the cancelled status that a run stopped by a signal
\* returns.
C21_FailureIsNotCancellation ==
    (mainPc = "returned" /\ AbortedByError) => outcome # "cancelled"

\* C22: after WriteAt has failed for a result the sink only leaves through
\* its return, the handler's context is cancelled by then, and the sink takes
\* no further result from the result channel, neither while it stops nor
\* after it has exited.
C22_WriteFailureStopsSink ==
    [][ /\ sinkPc = "stopWrite" =>
             /\ sinkPc' \in {"stopWrite", "exited"}
             /\ sinkPc' = "exited" => ctxDone
             /\ Len(resultChan') >= Len(resultChan)
        /\ sinkPc = "exited" =>
             /\ sinkPc' = "exited"
             /\ Len(resultChan') >= Len(resultChan) ]_vars

\* The write failed, Stop() has returned after cancelling the context, and a
\* result that the sink will never take is waiting in the channel.
C22_Witness ==
    /\ sinkPc = "stopWrite"
    /\ shState = "done"
    /\ ctxDone
    /\ resultChan # <<>>

----------------------------------------------------------------------------
\* ChecksumGenerator (internal/checksum), as the result sink of runTrasher
\* uses it: one UpdateWithChunk per result, in the order of arrival, and
\* WriteChecksumFile once every result has been consumed.

\* The values of a byte and the contents of a buffer of n bytes.
Bytes == 0..MaxByte
Buffers(n) == [1..n -> Bytes]

\* The offsets of the work items of the run.
ChunkOffsets == {o \in 0..(totalSize - 1) : o % chunkSize = 0}

\* A chunk given to UpdateWithChunk.
Chunk(buffer, off) == [offset |-> off, buffer |-> buffer]

\* The chunks held back whose turn has come are folded, lowest offset first.
RECURSIVE Drain(_)
Drain(g) ==
    IF \E c \in g.pending : c.offset = g.nextOffset
    THEN LET c == CHOOSE c \in g.pending : c.offset = g.nextOffset
         IN  Drain([g EXCEPT !.hasher = @ \o c.buffer,
                             !.nextOffset = @ + Len(c.buffer),
                             !.pending = @ \ {c}])
    ELSE g

\* Mutant: the chunk is written to the hash as it arrives.
UpdateInArrivalOrder(g, buffer, off) ==
    [g EXCEPT !.hasher = @ \o buffer, !.nextOffset = @ + Len(buffer)]

\* UpdateWithChunk(buffer, offset) on the generator g: the chunk at the next
\* expected offset is written to the hash, and so are the chunks held back that
\* follow it; a chunk that arrives early is held back.
Update(g, buffer, off) ==
    IF off = g.nextOffset
    THEN Drain([g EXCEPT !.hasher = @ \o buffer, !.nextOffset = @ + Len(buffer)])
    ELSE [g EXCEPT !.pending = @ \cup {Chunk(buffer, off)}]

\* checksumGen.UpdateWithChunk(result.Buffer, result.Offset) of the sink, for
\* a result that has not arrived yet; the results arrive in any order.
UpdateWithChunk ==
    /\ ~checksumGen.finalized
    /\ \E off \in ChunkOffsets \ {arrived[i].offset : i \in DOMAIN arrived} :
       \E buffer \in Buffers(NextSize(off)) :
        /\ checksumGen' = Update(checksumGen, buffer, off)
        /\ arrived' = Append(arrived, Chunk(buffer, off))
    /\ UNCHANGED <<pipe, handler, progressReporter, mixed, poolapi, content, fwriter, seqgen>>

\* checksumGen.WriteChecksumFile() on the success path of runTrasher: the
\* sink has consumed every result; the digest of the bytes hashed is final.
WriteChecksumFile ==
    /\ ~checksumGen.finalized
    /\ {arrived[i].offset : i \in DOMAIN arrived} = ChunkOffsets
    /\ checksumGen' = [checksumGen EXCEPT !.finalized = TRUE, !.sum = checksumGen.hasher]
    /\ UNCHANGED <<pipe, handler, progressReporter, mixed, poolapi, content, fwriter, seqgen, arrived>>

NextChecksum == UpdateWithChunk \/ WriteChecksumFile

InitChecksum ==
    \E C \in 1..MaxChunk, T \in 1..MaxTotal : InitRun(1, C, T, "random")

SpecChecksum == InitChecksum /\ [][NextChecksum]_vars

\* The bytes of the chunks of S, lowest offset first.
RECURSIVE FoldInOffsetOrder(_)
FoldInOffsetOrder(S) ==
    IF S = {} THEN <<>>
    ELSE LET c == CHOOSE c \in S : \A d \in S : c.offset <= d.offset
         IN  c.buffer \o FoldInOffsetOrder(S \ {c})

\* The bytes of the chunks of the sequence q, first to last.
RECURSIVE FoldInArrivalOrder(_)
FoldInArrivalOrder(q) ==
    IF q = <<>> THEN <<>> ELSE Head(q).buffer \o FoldInArrivalOrder(Tail(q))

----------------------------------------------------------------------------
\* FileWriter taken alone (internal/writer): goroutines call WriteAt and
\* Close, concurrently and one call after the other.

\* The byte at position i of the underlying file.
Content(i) == IF i \in DOMAIN disk THEN disk[i] ELSE 0

\* FileWriter.Written(): w.written read under w.mu
Written == fw.written

\* FileWriter.TotalSize()
TotalSize == totalSize

\* The positions that WriteAt(data, off) is asked to write.
Range(call) == call.offset .. (call.offset + Len(call.data) - 1)

\* A goroutine may begin a call: it is in none, and calls remain to be made.
MayCall(c) ==
    /\ fwCalls[c].pc \in {"idle", "done"}
    /\ fwHist.begun < MaxCalls

\* w.WriteAt(data, offset) is called: data of any length up to a chunk, filled
\* with the caller's number, at any offset from -1 to the size of the file.
WriteAtCall(c) ==
    /\ MayCall(c)
    /\ \E n \in 0..MaxChunk, off \in (-1)..totalSize :
        fwCalls' = [fwCalls EXCEPT ![c] =
                       [pc |-> "entry", op |-> "WriteAt", data |-> [i \in 1..n |-> c],
                        offset |-> off, ret |-> "none",
                        afterClose |-> fwHist.closeReturned,
                        closesBefore |-> fwHist.closes]]
    /\ fwHist' = [fwHist EXCEPT !.begun = @ + 1, !.writes = @ + 1]
    /\ UNCHANGED <<pipe, handler, progressReporter, mixed, poolapi, content, checksum, seqgen, fw, disk>>

\* if len(data) == 0 { return nil }
WriteAtEmpty(c) ==
    /\ fwCalls[c].pc = "entry"
    /\ fwCalls[c].op = "WriteAt"
    /\ Len(fwCalls[c].data) = 0
    /\ fwCalls' = [fwCalls EXCEPT ![c].pc = "done", ![c].ret = "nil"]
    /\ UNCHANGED <<pipe, handler, progressReporter, mixed, poolapi, content, checksum, seqgen, fw, disk, fwHist>>

\* What WriteAt finds under the lock: the writer is closed, the range is
\* outside the file, or the write may go on.
Validate(call) ==
    IF fw.file = "nil" THEN "closed"
    ELSE IF call.offset < 0 THEN "range"
    ELSE IF call.offset + Len(call.data) > totalSize THEN "range"
    ELSE "none"

\* Mutant: WriteAt does not take w.mu.
WriteAtLockNoMutex(c) ==
    /\ fwCalls[c].pc = "entry"
    /\ fwCalls[c].op = "WriteAt"
    /\ Len(fwCalls[c].data) > 0
    /\ fw' = [fw EXCEPT !.mu = c]
    /\ LET r == Validate(fwCalls[c])
       IN  fwCalls' = [fwCalls EXCEPT ![c].pc = IF r = "none" THEN "seek" ELSE "unlock",
                                      ![c].ret = r]
    /\ UNCHANGED <<pipe, handler, progressReporter, mixed, poolapi, content, checksum, seqgen, disk, fwHist>>

\* w.mu.Lock(), then the checks of w.file, of offset and of offset+len(data)
WriteAtLock(c) ==
    /\ fwCalls[c].pc = "entry"
    /\ fwCalls[c].op = "WriteAt"
    /\ Len(fwCalls[c].data) > 0
    /\ fw.mu = 0
    /\ fw' = [fw EXCEPT !.mu = c]
    /\ LET r == Validate(fwCalls[c])
       IN  fwCalls' = [fwCalls EXCEPT ![c].pc = IF r = "none" THEN "seek" ELSE "unlock",
                                      ![c].ret = r]
    /\ UNCHANGED <<pipe, handler, progressReporter, mixed, poolapi, content, checksum, seqgen, disk, fwHist>>

\* w.file.Seek(offset, io.SeekStart) moves the position of the file, or fails.
WriteAtSeek(c) ==
    /\ fwCalls[c].pc = "seek"
    /\ \/ /\ fw' = [fw EXCEPT !.pos = fwCalls[c].offset]
          /\ fwCalls' = [fwCalls EXCEPT ![c].pc = "write"]
       \/ /\ fwCalls' = [fwCalls EXCEPT ![c].pc = "unlock", ![c].ret = "io"]
          /\ UNCHANGED fw
    /\ UNCHANGED <<pipe, handler, progressReporter, mixed, poolapi, content, checksum, seqgen, disk, fwHist>>

\* The file after the first n bytes of data are written at position pos.
WriteBytes(data, pos, n) ==
    [i \in DOMAIN disk \cup (pos .. (pos + n - 1)) |->
        IF i \in pos .. (pos + n - 1) THEN data[i - pos + 1] ELSE disk[i]]

\* Mutant: the bytes of a short write are counted.
WriteAtWriteCountsShort(c) ==
    /\ fwCalls[c].pc = "write"
    /\ \E n \in 0..Len(fwCalls[c].data) :
        /\ disk' = WriteBytes(fwCalls[c].data, fw.pos, n)
        /\ fw' = [fw EXCEPT !.pos = @ + n, !.written = @ + n]
        /\ fwCalls' = [fwCalls EXCEPT ![c].pc = "unlock",
                          ![c].ret = IF n = Len(fwCalls[c].data) THEN "nil" ELSE "io"]
    /\ UNCHANGED <<pipe, handler, progressReporter, mixed, poolapi, content, checksum, seqgen, fwHist>>

\* n, err := w.file.Write(data) writes n bytes at the position of the file and
\* advances it; with n = len(data) and no error w.written += n, a failed or a
\* short write is an error.
WriteAtWrite(c) ==
    /\ fwCalls[c].pc = "write"
    /\ \E n \in 0..Len(fwCalls[c].data) :
        /\ disk' = WriteBytes(fwCalls[c].data, fw.pos, n)
        /\ IF n = Len(fwCalls[c].data)
           THEN /\ fw' = [fw EXCEPT !.pos = @ + n, !.written = @ + n]
                /\ fwCalls' = [fwCalls EXCEPT ![c].pc = "unlock", ![c].ret = "nil"]
           ELSE /\ fw' = [fw EXCEPT !.pos = @ + n]
                /\ fwCalls' = [fwCalls EXCEPT ![c].pc = "unlock", ![c].ret = "io"]
    /\ UNCHANGED <<pipe, handler, progressReporter, mixed, poolapi, content, checksum, seqgen, fwHist>>

\* w.Close() is called.
CloseCall(c) ==
    /\ MayCall(c)
    /\ fwCalls' = [fwCalls EXCEPT ![c] =
                      [pc |-> "entry", op |-> "Close", data |-> <<>>, offset |-> 0,
                       ret |-> "none", afterClose |-> fwHist.closeReturned,
                       closesBefore |-> fwHist.closes]]
    /\ fwHist' = [fwHist EXCEPT !.begun = @ + 1]
    /\ UNCHANGED <<pipe, handler, progressReporter, mixed, poolapi, content, checksum, seqgen, fw, disk>>

\* w.mu.Lock(); if w.file == nil { return nil }
CloseLock(c) ==
    /\ fwCalls[c].pc = "entry"
    /\ fwCalls[c].op = "Close"
    /\ fw.mu = 0
    /\ fw' = [fw EXCEPT !.mu = c]
    /\ fwCalls' = IF fw.file = "nil"
                  THEN [fwCalls EXCEPT ![c].pc = "unlock", ![c].ret = "nil"]
                  ELSE [fwCalls EXCEPT ![c].pc = "sync"]
    /\ UNCHANGED <<pipe, handler, progressReporter, mixed, poolapi, content, checksum, seqgen, disk, fwHist>>

\* Mutant: Close leaves w.file set.
CloseFileKeepsFile(c) ==
    /\ fwCalls[c].pc = "sync"
    /\ \E r \in {"nil", "io"} :
        fwCalls' = [fwCalls EXCEPT ![c].pc = "unlock", ![c].ret = r]
    /\ fwHist' = [fwHist EXCEPT !.closes = @ + 1]
    /\ UNCHANGED <<pipe, handler, progressReporter, mixed, poolapi, content, checksum, seqgen, fw, disk>>

\* w.file.Sync() and w.file.Close(): whether Sync fails or not the underlying
\* file is closed once and w.file = nil; the error of Sync, else that of
\* Close, is returned.
CloseFile(c) ==
    /\ fwCalls[c].pc = "sync"
    /\ \E r \in {"nil", "io"} :
        fwCalls' = [fwCalls EXCEPT ![c].pc = "unlock", ![c].ret = r]
    /\ fw' = [fw EXCEPT !.file = "nil"]
    /\ fwHist' = [fwHist EXCEPT !.closes = @ + 1]
    /\ UNCHANGED <<pipe, handler, progressReporter, mixed, poolapi, content, checksum, seqgen, disk>>

\* defer w.mu.Unlock() and the return of WriteAt or Close to its caller
CallReturn(c) ==
    /\ fwCalls[c].pc = "unlock"
    /\ fw' = [fw EXCEPT !.mu = 0]
    /\ fwCalls' = [fwCalls EXCEPT ![c].pc = "done"]
    /\ fwHist' = [fwHist EXCEPT
                    !.okBytes = IF fwCalls[c].op = "WriteAt" /\ fwCalls[c].ret = "nil"
                                THEN @ + Len(fwCalls[c].data) ELSE @,
                    !.closeReturned = @ \/ fwCalls[c].op = "Close"]
    /\ UNCHANGED <<pipe, handler, progressReporter, mixed, poolapi, content, checksum, seqgen, disk>>

NextWriter ==
    \E c \in Callers :
        \/ WriteAtCall(c)
        \/ WriteAtEmpty(c)
        \/ WriteAtLock(c)
        \/ WriteAtSeek(c)
        \/ WriteAtWrite(c)
        \/ CloseCall(c)
        \/ CloseLock(c)
        \/ CloseFile(c)
        \/ CallReturn(c)

InitWriter == InitRun(1, MaxChunk, MaxTotal, "zero")

SpecWriter == InitWriter /\ [][NextWriter]_vars

\* The calls of WriteAt that have returned.
Returned(c) == fwCalls[c].pc = "done" /\ fwCalls[c].op = "WriteAt"

\* The range asked of WriteAt lies outside the file.
OutOfRange(call) == call.offset < 0 \/ call.offset + Len(call.data) > TotalSize

\* C24: WriteAt returns an error whenever offset < 0 or
\* offset + len(data) > TotalSize().
C24_OutOfRangeIsAnError ==
    \A c \in Callers :
        (Returned(c) /\ OutOfRange(fwCalls[c])) => fwCalls[c].ret # "nil"

\* C25: whenever Written() can be read (w.mu is free), it is the sum of
\* len(data) over exactly the calls of WriteAt that returned nil.
C25_WrittenIsSumOfSuccesses ==
    fw.mu = 0 => Written = fwHist.okBytes

\* Bytes are counted, and a call that failed in the middle of its write has
\* returned without being counted.
C25_Witness ==
    /\ fw.mu = 0
    /\ Written > 0
    /\ \E c \in Callers :
        /\ Returned(c)
        /\ fwCalls[c].ret = "io"
        /\ \E i \in Range(fwCalls[c]) : Content(i) = c

\* Every WriteAt begun is the current call of its goroutine, and the ranges
\* of these calls are pairwise disjoint.
DisjointWrites ==
    /\ fwHist.writes = Cardinality({c \in Callers : fwCalls[c].op = "WriteAt"})
    /\ \A c, d \in Callers :
        (c # d /\ fwCalls[c].op = "WriteAt" /\ fwCalls[d].op = "WriteAt")
            => Range(fwCalls[c]) \cap Range(fwCalls[d]) = {}

\* C26: Seek and Write of a call are atomic (the file is still at the
\* offset of the call when its Write starts), and when the calls of WriteAt
\* are on pairwise disjoint ranges the file holds, in the range of every call
\* that returned nil, exactly the data given to that call.
C26_DisjointWritesLand ==
    /\ \A c \in Callers : fwCalls[c].pc = "write" => fw.pos = fwCalls[c].offset
    /\ DisjointWrites =>
        \A c \in Callers :
            (Returned(c) /\ fwCalls[c].ret = "nil") =>
                \A i \in Range(fwCalls[c]) :
                    Content(i) = fwCalls[c].data[i - fwCalls[c].offset + 1]

\* Two goroutines are inside WriteAt on disjoint ranges: one has written its
\* data and still holds w.mu, the other waits at w.mu.Lock().
C26_Witness ==
    /\ DisjointWrites
    /\ \E c, d \in Callers :
        /\ fwCalls[c].pc = "unlock" /\ fwCalls[c].ret = "nil"
        /\ fwCalls[d].pc = "entry" /\ fwCalls[d].op = "WriteAt"
        /\ Len(fwCalls[d].data) > 0
        /\ ~OutOfRange(fwCalls[d])

\* C27: a call of WriteAt made after a Close has returned yields an error.
C27_WriteAfterCloseIsAnError ==
    \A c \in Callers :
        (Returned(c) /\ fwCalls[c].afterClose) => fwCalls[c].ret # "nil"

\* The calls of Close that have decided what they return.
Closed(c) == fwCalls[c].op = "Close" /\ fwCalls[c].pc \in {"unlock", "done"}

\* C28: Close is idempotent: the underlying file is closed at most once; a
\* Close called after a Close has returned returns nil, and of two concurrent
\* calls of Close one returns nil; no step of Close changes Written() (the
\* only step that does is the Write of a WriteAt), and TotalSize() never
\* changes.
C28_CloseIdempotent ==
    /\ [](/\ fwHist.closes <= 1
          /\ \A c \in Callers : (Closed(c) /\ fwCalls[c].afterClose) => fwCalls[c].ret = "nil"
          /\ \A c, d \in Callers :
                (c # d /\ Closed(c) /\ Closed(d)) =>
                    (fwCalls[c].ret = "nil" \/ fwCalls[d].ret = "nil"))
    /\ [][/\ Written' # Written =>
                \E c \in Callers : fwCalls[c].op = "WriteAt" /\ fwCalls[c].pc = "write"
          /\ TotalSize' = TotalSize]_vars

\* Bytes were written, the file was closed, and a Close called after the
\* first one had returned has returned nil.
C28_Witness ==
    /\ Written > 0
    /\ fwHist.closes = 1
    /\ \E c \in Callers :
        fwCalls[c].pc = "done" /\ Closed(c) /\ fwCalls[c].afterClose /\ fwCalls[c].ret = "nil"

----------------------------------------------------------------------------
\* SequentialGenerator taken alone (pkg/generator): goroutines call
\* Generate on one shared generator, concurrently and one call after the other.

\* The number of values of a uint8.
Uint8 == 256

\* The lengths of the buffers given to Generate.
BufferLens == {1, 5, 127}

\* Generate(buffer) is called with a buffer of some length, its bytes zero.
GenerateCall(c) ==
    /\ genCalls[c].pc \in {"idle", "done"}
    /\ Len(genDone) + Cardinality({d \in Callers : genCalls[d].pc \notin {"idle", "done"}})
         < MaxCalls
    /\ \E n \in BufferLens :
        genCalls' = [genCalls EXCEPT ![c] =
                        [pc |-> "lock", buffer |-> [i \in 1..n |-> 0], startValue |-> 0]]
    /\ UNCHANGED <<pipe, handler, progressReporter, mixed, poolapi, content, checksum, fwriter, seqGen, genDone>>

\* Mutant: Generate reads the counter without taking g.mu.
GenerateReadNoMutex(c) ==
    /\ genCalls[c].pc = "lock"
    /\ seqGen' = [seqGen EXCEPT !.mu = c]
    /\ genCalls' = [genCalls EXCEPT ![c].pc = "update", ![c].startValue = seqGen.counter]
    /\ UNCHANGED <<pipe, handler, progressReporter, mixed, poolapi, content, checksum, fwriter, genDone>>

\* g.mu.Lock(); startValue := g.counter
GenerateRead(c) ==
    /\ genCalls[c].pc = "lock"
    /\ seqGen.mu = 0
    /\ seqGen' = [seqGen EXCEPT !.mu = c]
    /\ genCalls' = [genCalls EXCEPT ![c].pc = "update", ![c].startValue = seqGen.counter]
    /\ UNCHANGED <<pipe, handler, progressReporter, mixed, poolapi, content, checksum, fwriter, genDone>>

\* g.counter = uint8((int(g.counter) + len(buffer)) % 256); g.mu.Unlock().
\* Under the lock g.counter is still the startValue read.
GenerateUpdate(c) ==
    /\ genCalls[c].pc = "update"
    /\ seqGen' = [counter |-> (genCalls[c].startValue + Len(genCalls[c].buffer)) % Uint8,
                  mu |-> 0]
    /\ genCalls' = [genCalls EXCEPT ![c].pc = "fill"]
    /\ UNCHANGED <<pipe, handler, progressReporter, mixed, poolapi, content, checksum, fwriter, genDone>>

\* Mutant: the buffer is filled from the counter as it is now.
FillFromCounter(startValue, n) ==
    [i \in 1..n |-> (seqGen.counter + (i - 1)) % Uint8]

\* for i := range buffer { buffer[i] = uint8((int(startValue) + i) % 256) }
Fill(startValue, n) ==
    [i \in 1..n |-> (startValue + (i - 1)) % Uint8]

\* The loop that fills the buffer, and return nil.
GenerateFill(c) ==
    /\ genCalls[c].pc = "fill"
    /\ LET buffer == Fill(genCalls[c].startValue, Len(genCalls[c].buffer))
       IN  /\ genCalls' = [genCalls EXCEPT ![c].pc = "done", ![c].buffer = buffer]
           /\ genDone' = Append(genDone, [caller |-> c, buffer |-> buffer])
    /\ UNCHANGED <<pipe, handler, progressReporter, mixed, poolapi, content, checksum, fwriter, seqGen>>

Generate(c) ==
    \/ GenerateCall(c)
    \/ GenerateRead(c)
    \/ GenerateUpdate(c)
    \/ GenerateFill(c)

InitGenerator == InitRun(1, MaxChunk, MaxTotal, "zero")

\* One goroutine calls Generate, one call after the other.
NextSequential == Generate(1)

SpecSequential == InitGenerator /\ [][NextSequential]_vars

\* The goroutines call Generate concurrently.
NextGenerator == \E c \in Callers : Generate(c)

SpecGenerator == InitGenerator /\ [][NextGenerator]_vars

----------------------------------------------------------------------------
\* Properties of the SequentialGenerator

\* No goroutine is inside Generate.
Quiescent == \A c \in Callers : genCalls[c].pc \in {"idle", "done"}

\* The bytes of the calls of the sequence q, one buffer after the other.
RECURSIVE Stream(_)
Stream(q) == IF q = <<>> THEN <<>> ELSE Head(q).buffer \o Stream(Tail(q))

\* The calls of genDone after the first j.
After(j) == SubSeq(genDone, j + 1, Len(genDone))

\* The cursor after the first j calls of genDone, from the cursor 0 of a new
\* generator.
CursorAfter(j) == Len(Stream(SubSeq(genDone, 1, j))) % Uint8

\* C29: without concurrent calls, the consecutive calls made from a cursor c
\* produce a stream whose k-th byte (from 0) is (c + k) mod 256, and after
\* the calls the cursor is the previous cursor plus the lengths, mod 256.
C29_SequentialStream ==
    Quiescent =>
        /\ seqGen.counter = CursorAfter(Len(genDone))
        /\ \A j \in 0..Len(genDone) :
            \A k \in 1..Len(Stream(After(j))) :
                Stream(After(j))[k] = (CursorAfter(j) + (k - 1)) % Uint8

\* From the cursor 254 a call with a buffer of 5 bytes has produced
\* 254, 255, 0, 1, 2 and left the cursor at 3.
C29_Witness ==
    /\ Quiescent
    /\ Len(genDone) = 3
    /\ CursorAfter(2) = 254
    /\ genDone[3].buffer = <<254, 255, 0, 1, 2>>
    /\ seqGen.counter = 3

\* The calls of genDone taken in the order p produce, each from the cursor
\* left by those before it, the buffers they returned.
Serializes(p) ==
    \A n \in 1..Len(genDone) :
        LET before == [m \in 1..(n - 1) |-> genDone[p[m]]]
            s == Len(Stream(before)) % Uint8
            buffer == genDone[p[n]].buffer
        IN  \A i \in 1..Len(buffer) : buffer[i] = (s + (i - 1)) % Uint8

\* C30: under concurrent calls on a shared generator there is a total order
\* of the calls in which each call's buffer is (s + i) mod 256, s being the
\* initial cursor plus the lengths of the calls ordered before it, and the
\* final cursor is the initial cursor plus the lengths of all calls, mod 256.
C30_CursorUpdatesAtomic ==
    Quiescent =>
        /\ \E p \in Permutations(1..Len(genDone)) : Serializes(p)
        /\ seqGen.counter = Len(Stream(genDone)) % Uint8

\* Two goroutines have called concurrently and returned in the order
\* opposite to that of their updates of the cursor.
C30_Witness ==
    /\ Quiescent
    /\ Len(genDone) >= 2
    /\ genDone[1].caller # genDone[2].caller
    /\ genDone[2].buffer[1] = 0
    /\ genDone[1].buffer[1] = Len(genDone[2].buffer)

----------------------------------------------------------------------------
\* Properties of the dispatcher, of the queues and of the buffers

\* The end of the last work item sent, 0 when none was sent.
EndOfEmitted ==
    IF emitted = <<>> THEN 0
    ELSE emitted[Len(emitted)].offset + emitted[Len(emitted)].size

\* C33: at every moment of a run, cancelled or not, the work items sent so
\* far are a prefix of the partition of [0, totalSize) in offset order, the
\* dispatcher's offset is the end of the last item sent, and the offset
\* advances only in a step that sends the item starting at it.
C33_DispatchedIsPrefix ==
    /\ [](/\ Len(emitted) <= NumChunks
          /\ emitted = SubSeq(ExpectedItems, 1, Len(emitted))
          /\ offset = EndOfEmitted)
    /\ [][offset' # offset =>
            /\ workChan' = Append(workChan, [offset |-> offset, size |-> offset' - offset])
            /\ emitted' = Append(emitted, [offset |-> offset, size |-> offset' - offset])]_vars

\* The dispatcher has returned on cancellation after sending some of the
\* items, not all.
C33_Witness ==
    /\ dispPc = "done"
    /\ PoolDone
    /\ 0 < Len(emitted)
    /\ Len(emitted) < NumChunks

HeldByWorkers ==
    BagCardinality([w \in {v \in BagToSet(workers) : v.pc \in {"generate", "generr", "send"}}
                       |-> CopiesIn(w, workers)])

\* The sink holds the buffer of the result it received.
HeldBySink ==
    IF sinkPc \in {"checksum", "write", "count", "return", "stopChecksum", "stopWrite"}
    THEN 1 ELSE 0

\* The buffers checked out of the pool.
CheckedOut == HeldByWorkers + Len(resultChan) + HeldBySink

\* C35: the work queue and the result queue hold at most 2*W items each, and
\* at most 3*W + 1 buffers are checked out of the pool, whether the sink
\* consumes or not.
C35_BackpressureBounds ==
    /\ Len(workChan) <= 2 * numWorkers
    /\ Len(resultChan) <= 2 * numWorkers
    /\ CheckedOut <= 3 * numWorkers + 1

\* Everything is full: both queues, the worker is blocked on its send, the
\* sink holds a result, and the dispatcher has a further item to send.
C35_Witness ==
    /\ Len(workChan) = 2 * numWorkers
    /\ Len(resultChan) = 2 * numWorkers
    /\ CheckedOut = 3 * numWorkers + 1
    /\ dispPc = "run"
    /\ offset < totalSize

\* The places that hold the buffer taken from the pool for the work item at
\* offset o: a worker between Get and its send, an entry of the result
\* queue, the sink between its receive and ReturnBuffer.
WorkerHolds(o) ==
    BagCardinality([w \in {v \in BagToSet(workers) :
                              /\ v.pc \in {"generate", "generr", "send"}
                              /\ v.work.offset = o}
                       |-> CopiesIn(w, workers)])
QueueHolds(o) == Cardinality({i \in 1..Len(resultChan) : resultChan[i].offset = o})
SinkHolds(o) == IF HeldBySink = 1 /\ result.offset = o THEN 1 ELSE 0
Holders(o) == WorkerHolds(o) + QueueHolds(o) + SinkHolds(o)

\* C38: a buffer is in exactly one place at a time: the buffer taken for a
\* work item is held by one worker, or by one entry of the result queue, or by
\* the sink, or it has been put back into the pool, and never two of these;
\* the pool changes only by a Get or a Put; and no worker fills a buffer that
\* the sink is reading.
C38_ExclusiveOwnership ==
    /\ [](\A o \in {emitted[i].offset : i \in 1..Len(emitted)} :
            /\ CopiesIn(o, acquired) <= 1
            /\ Holders(o) + CopiesIn(o, released) = CopiesIn(o, acquired))
    /\ [](\A w \in BagToSet(workers) :
            (w.pc = "generate" /\ HeldBySink = 1) => w.work.offset # result.offset)
    /\ [][bufferPool' # bufferPool =>
            \/ /\ BagCardinality(acquired') = BagCardinality(acquired) + 1
               /\ BagCardinality(bufferPool') = BagCardinality(bufferPool) - 1
               /\ released' = released
            \/ /\ BagCardinality(released') = BagCardinality(released) + 1
               /\ BagCardinality(bufferPool') = BagCardinality(bufferPool) + 1
               /\ acquired' = acquired]_vars

\* A buffer that was put back has been taken again (the pool is empty) and a
\* worker fills it while the sink reads another one and a third is queued.
C38_Witness ==
    /\ released # EmptyBag
    /\ bufferPool = EmptyBag
    /\ \E w \in BagToSet(workers) : w.pc = "generate"
    /\ sinkPc \in {"checksum", "write"}
    /\ resultChan # <<>>

\* No generator has failed so far; with the sink about to write, neither has
\* the checksum nor an earlier write.
NoFaultSoFar == ~poolCancelled /\ \A w \in BagToSet(workers) : w.pc # "generr"

\* C37: in a run without an I/O fault, every WriteAt the sink issues finds the
\* file writer still open, whatever the interleaving of the sink with the
\* goroutine that performs the shutdown cleanup.
C37_WriteFindsWriterOpen ==
    [][(sinkPc = "write" /\ sinkPc' # "write" /\ NoFaultSoFar) => fileOpen]_vars

\* How many times cleanup function f has returned.
ReturnsOf(f) ==
    Cardinality({k \in 1..Len(calls) : calls[k].op \in {"ok", "err"} /\ calls[k].fn = f})

\* C40: every cleanup function whose registration returned before shutdown
\* was initiated is executed exactly once during that shutdown: when the
\* cleanup loop has ended each of them has been called once and has returned
\* once, a cleanup function is called only inside performCleanup, and this
\* holds whether a signal, the parent context or a call of Stop started the
\* shutdown.
C40_RegisteredCleanupsRunOnce ==
    /\ [](shutdownOnce \in {"unlock", "done"} =>
            \A f \in 1..regAtShutdown : CallsOf(f) = 1 /\ ReturnsOf(f) = 1)
    /\ [](\A f \in 1..Len(cleanupFns) : ReturnsOf(f) <= CallsOf(f) /\ CallsOf(f) <= 1)
    /\ [][calls' # calls => (entered = 1 /\ mu /\ shutdownOnce \in {"loop", "fn"})]_vars

\* Shutdown started by the cancellation of the parent context alone (no
\* signal was delivered, Stop was never called) is complete and MaxCleanups
\* functions registered before it were executed.
C40_Witness ==
    /\ ShutdownComplete
    /\ regAtShutdown = MaxCleanups
    /\ parentDone
    /\ stopCalling = 0
    /\ stopReturned = 0
    /\ sigChan = 0
    /\ \A k \in 1..Len(output) : output[k].text # "signal"
    /\ \A f \in 1..MaxCleanups : CallsOf(f) = 1 /\ ReturnsOf(f) = 1

----------------------------------------------------------------------------
\* WorkerPool.Wait and WorkerPool.Shutdown, called on a started pool by up to
\* MaxCallers goroutines, MaxCalls times in all, with a consumer of Results()

\* A panic ends the program.
PoolRunning == ~poolHist.panicked

\* for result := range p.Results() { ...; p.ReturnBuffer(result.buffer) }
PoolConsume ==
    /\ PoolRunning
    /\ resultChan # <<>>
    /\ resultChan' = Tail(resultChan)
    /\ bufferPool' = ReturnBuffer(Head(resultChan).buffer)
    /\ released' = released (+) SetToBag({Head(resultChan).offset})
    /\ UNCHANGED <<handler, objects, config, ctxDone, poolCancelled, workChan, workClosed,
                   resultClosed, errorChan, errorClosed, disp, workers, sink,
                   writtenBytes, file, shState, sigPc, monPc, mainPc, outcome,
                   published, acquired>>

\* A goroutine calls p.Wait().
PoolWaitCall(c) ==
    /\ PoolRunning
    /\ poolCalls[c].pc = "idle"
    /\ poolHist.started < MaxCalls
    /\ poolCalls' = [poolCalls EXCEPT ![c] = [pc |-> "wgWait", op |-> "Wait"]]
    /\ poolHist' = [poolHist EXCEPT !.started = @ + 1]
    /\ UNCHANGED <<pipe, handler, progressReporter, mixed, content, checksum, fwriter, seqgen>>

\* A goroutine calls p.Shutdown().
PoolShutdownCall(c) ==
    /\ PoolRunning
    /\ poolCalls[c].pc = "idle"
    /\ poolHist.started < MaxCalls
    /\ poolCalls' = [poolCalls EXCEPT ![c] = [pc |-> "cancel", op |-> "Shutdown"]]
    /\ poolHist' = [poolHist EXCEPT !.started = @ + 1]
    /\ UNCHANGED <<pipe, handler, progressReporter, mixed, content, checksum, fwriter, seqgen>>

\* Shutdown: p.cancel()
PoolCancel(c) ==
    /\ PoolRunning
    /\ poolCalls[c].pc = "cancel"
    /\ poolCancelled' = TRUE
    /\ poolCalls' = [poolCalls EXCEPT ![c].pc = "wgWait"]
    /\ UNCHANGED <<handler, progressReporter, mixed, content, checksum, fwriter, seqgen, poolHist, config, ctxDone, chans,
                   bufferPool, disp, workers, sink, writtenBytes, file, shState, sigPc,
                   monPc, mainPc, outcome, hist>>

\* Wait: p.wg.Wait() returns when every worker has returned.
PoolWgWait(c) ==
    /\ PoolRunning
    /\ poolCalls[c].pc = "wgWait"
    /\ AllWorkersExited
    /\ poolCalls' = [poolCalls EXCEPT ![c].pc = "closeResult"]
    /\ UNCHANGED <<pipe, handler, progressReporter, mixed, content, checksum, fwriter, seqgen, poolHist>>

\* Wait: close(p.resultChan); closing a closed channel panics.
PoolCloseResult(c) ==
    /\ PoolRunning
    /\ poolCalls[c].pc = "closeResult"
    /\ resultClosed' = TRUE
    /\ poolHist' = [poolHist EXCEPT !.closedResult = @ + 1, !.panicked = resultClosed]
    /\ poolCalls' = [poolCalls EXCEPT ![c].pc = IF resultClosed THEN "panic" ELSE "closeError"]
    /\ UNCHANGED <<handler, progressReporter, mixed, content, checksum, fwriter, seqgen, config, ctxDone, poolCancelled,
                   workChan, workClosed, resultChan, errorChan, errorClosed,
                   bufferPool, disp, workers, sink, writtenBytes, file, shState, sigPc,
                   monPc, mainPc, outcome, hist>>

\* Wait: close(p.errorChan), and the call returns.
PoolCloseError(c) ==
    /\ PoolRunning
    /\ poolCalls[c].pc = "closeError"
    /\ errorClosed' = TRUE
    /\ poolHist' = [poolHist EXCEPT !.closedError = @ + 1, !.panicked = errorClosed]
    /\ poolCalls' = [poolCalls EXCEPT ![c] = IF errorClosed THEN [@ EXCEPT !.pc = "panic"]
                                                             ELSE NoPoolCall]
    /\ UNCHANGED <<handler, progressReporter, mixed, content, checksum, fwriter, seqgen, config, ctxDone, poolCancelled,
                   workChan, workClosed, resultChan, resultClosed, errorChan,
                   bufferPool, disp, workers, sink, writtenBytes, file, shState, sigPc,
                   monPc, mainPc, outcome, hist>>

NextPool ==
    \/ PoolRunning /\ DistributeSend
    \/ PoolRunning /\ DistributeCancel
    \/ PoolRunning /\ DistributeFinish
    \/ \E w \in BagToSet(workers) : PoolRunning /\ WorkerCancelled(w)
    \/ \E w \in BagToSet(workers) : PoolRunning /\ WorkerClosed(w)
    \/ \E w \in BagToSet(workers) : PoolRunning /\ WorkerReceive(w)
    \/ \E w \in BagToSet(workers) : PoolRunning /\ WorkerGetBuffer(w)
    \/ \E w \in BagToSet(workers) : PoolRunning /\ WorkerGenerate(w)
    \/ \E w \in BagToSet(workers) : PoolRunning /\ WorkerReportError(w)
    \/ \E w \in BagToSet(workers) : PoolRunning /\ WorkerSendCancelled(w)
    \/ \E w \in BagToSet(workers) : PoolRunning /\ WorkerSend(w)
    \/ PoolConsume
    \/ \E c \in Callers : PoolWaitCall(c)
    \/ \E c \in Callers : PoolShutdownCall(c)
    \/ \E c \in Callers : PoolCancel(c)
    \/ \E c \in Callers : PoolWgWait(c)
    \/ \E c \in Callers : PoolCloseResult(c)
    \/ \E c \in Callers : PoolCloseError(c)

\* NewWorkerPool(ctx, W, 1) and Start(gen, T) with a generator that can fail
InitPool ==
    \E W \in 1..MaxWorkers, T \in 1..MaxTotal : InitRun(W, 1, T, "random")

SpecPool == InitPool /\ [][NextPool]_vars

----------------------------------------------------------------------------
\* runTrasher with the SequentialGenerator: the bytes the workers generate
\* and the bytes the sink writes

\* gen.Generate(buffer) with the SequentialGenerator: the buffer is filled
\* from the counter, which advances by len(buffer); it returns nil.
WorkerGenerateSequential(w) ==
    /\ w.pc = "generate"
    /\ seqGen.mu = 0
    /\ seqGen' = [seqGen EXCEPT !.counter = (seqGen.counter + w.buffer) % Uint8]
    /\ bufBytes' = (w.work.offset :> Fill(seqGen.counter, w.buffer)) @@ bufBytes
    /\ Move(w, [w EXCEPT !.pc = "send"])
    /\ UNCHANGED <<handler, progressReporter, mixed, checksum, fwriter, genCalls, genDone, poolapi, fileBytes,
                   config, ctxDone, poolCancelled, chans, bufferPool, disp, sink,
                   writtenBytes, file, shState, sigPc, monPc, mainPc, outcome, hist>>

\* The file after data has been written at offset off.
WriteBytesAt(data, off) ==
    [p \in DOMAIN fileBytes \cup {off + i - 1 : i \in 1..Len(data)} |->
        IF off <= p /\ p < off + Len(data) THEN data[p - off + 1] ELSE fileBytes[p]]

\* fileWriter.WriteAt(result.Buffer, result.Offset) with the bytes of the buffer
SinkWriteBytes ==
    /\ sinkPc = "write"
    /\ \E r \in WriteAtOutcomes(result.buffer, result.offset) :
        /\ sinkPc' = IF r = "err" THEN "stopWrite" ELSE "count"
        /\ IF r = "ok"
           THEN /\ written' = written + result.buffer
                /\ extents' = extents \cup {[offset |-> result.offset, len |-> result.buffer]}
                /\ fileBytes' = WriteBytesAt(bufBytes[result.offset], result.offset)
           ELSE UNCHANGED <<written, extents, fileBytes>>
    /\ UNCHANGED <<handler, progressReporter, mixed, checksum, fwriter, seqgen, poolapi, bufBytes,
                   config, ctxDone, poolCancelled, chans, bufferPool, disp, workers, result,
                   writtenBytes, fileOpen, shState, sigPc, monPc, mainPc, outcome, hist>>

\* The run with the sequential generator: Generate cannot fail, so that no
\* worker reports an error and the error monitor receives none.
NextOrdered ==
    \/ DistributeSend
    \/ DistributeCancel
    \/ DistributeFinish
    \/ \E w \in BagToSet(workers) : WorkerCancelled(w)
    \/ \E w \in BagToSet(workers) : WorkerClosed(w)
    \/ \E w \in BagToSet(workers) : WorkerReceive(w)
    \/ \E w \in BagToSet(workers) : WorkerGetBuffer(w)
    \/ \E w \in BagToSet(workers) : WorkerGenerateSequential(w)
    \/ \E w \in BagToSet(workers) : WorkerSendCancelled(w)
    \/ \E w \in BagToSet(workers) : WorkerSend(w)
    \/ SinkCancelled
    \/ SinkClosed
    \/ SinkReceive
    \/ SinkChecksum
    \/ SinkWriteBytes
    \/ SinkCount
    \/ SinkReturn
    \/ SinkStop
    \/ SinkFailReturn
    \/ MonitorCancelled
    \/ MonitorClosed
    \/ SignalLoop
    \/ SignalReturn
    \/ PerformCleanup
    \/ Wait
    \/ MainJoin
    \/ MainClose
    \/ MainFinish

\* The runs with one worker: the small ones, and one whose file is longer than
\* the 256 values of the generator's counter.
OrderedRuns == ((1..MaxChunk) \X (1..MaxTotal)) \cup {<<100, 300>>}

\* Mutant: the pool has MaxWorkers workers.
InitOrderedTwoWorkers == \E r \in OrderedRuns : InitRun(MaxWorkers, r[1], r[2], "sequential")

\* NewWorkerPool(ctx, 1, chunkSize), NewGenerator("sequential")
InitOrdered == \E r \in OrderedRuns : InitRun(1, r[1], r[2], "sequential")

SpecOrdered == InitOrdered /\ [][NextOrdered]_vars

\* C36: with one worker and a fresh SequentialGenerator the work items are
\* generated in dispatch order: the buffer filled for the item at offset o
\* holds the bytes o mod 256, (o + 1) mod 256, ..., what is in the file at
\* position p is p mod 256, and after a successful run every position of
\* [0, totalSize) is in the file.
C36_SequentialFileIsCanonical ==
    /\ \A o \in DOMAIN bufBytes :
        \A i \in 1..Len(bufBytes[o]) : bufBytes[o][i] = (o + i - 1) % Uint8
    /\ \A p \in DOMAIN fileBytes : fileBytes[p] = p % Uint8
    /\ outcome = "success" => DOMAIN fileBytes = 0..(totalSize - 1)

\* A successful run of a file longer than 256 bytes, in several chunks.
C36_Witness ==
    /\ outcome = "success"
    /\ totalSize > Uint8
    /\ Len(emitted) > 2
    /\ DOMAIN fileBytes = 0..(totalSize - 1)
    /\ fileBytes[totalSize - 1] = (totalSize - 1) % Uint8

----------------------------------------------------------------------------
\* MixedGenerator (pkg/generator)

\* The chunk sizes given to NewMixedGenerator and the lengths of the buffers
\* given to Generate; 10 and 30 are those of TestMixedGenerator.
MixedChunkSizes == {0, 1, 2, 3, 10}
MixedBufferLens == {0, 1, 2, 3, 5, 30}

\* Which call of g.random.Generate inside one call fails: none (0), the
\* first, the second.
FailingPiece == 0..2

Min(a, b) == IF a < b THEN a ELSE b

\* The loop of Generate on generator g for a buffer of n bytes, from offset
\* off, with out the bytes filled so far; the fail-th call of random.Generate
\* from here returns an error. g.mu is held from the first statement to the
\* return, so that a call is one step for every other goroutine.
RECURSIVE MixedLoop(_, _, _, _, _)
MixedLoop(g, n, off, fail, out) ==
    IF off >= n
    THEN [gen |-> g, out |-> out, err |-> FALSE]
    ELSE LET remainingInChunk == g.chunkSize - g.currentPos
             remainingInBuffer == n - off
             copySize == Min(remainingInChunk, remainingInBuffer)
             source == IF g.isRandom THEN "random" ELSE "zero"
             advanced == [g EXCEPT !.currentPos = @ + copySize]
             next == IF advanced.currentPos >= g.chunkSize
                     THEN [advanced EXCEPT !.isRandom = ~@, !.currentPos = 0]
                     ELSE advanced
         IN  IF g.isRandom /\ fail = 1
             THEN [gen |-> g, out |-> out, err |-> TRUE]
             ELSE MixedLoop(next, n, off + copySize,
                            IF g.isRandom /\ fail > 1 THEN fail - 1 ELSE fail,
                            out \o [i \in 1..copySize |-> source])

\* Mutant: every call starts a new random chunk.
MixedGenerateFromStart ==
    /\ Len(mixCalls) < MaxCalls
    /\ \E n \in MixedBufferLens, fail \in FailingPiece :
        LET r == MixedLoop([mixedGen EXCEPT !.isRandom = TRUE, !.currentPos = 0],
                           n, 0, fail, <<>>)
        IN  /\ mixedGen' = r.gen
            /\ mixCalls' = Append(mixCalls, [len |-> n, err |-> r.err])
            /\ mixStream' = IF r.err THEN mixStream ELSE mixStream \o r.out
    /\ UNCHANGED <<pipe, handler, progressReporter, checksum, fwriter, seqgen, poolapi, content>>

\* func (g *MixedGenerator) Generate(buffer []byte) error
MixedGenerate ==
    /\ Len(mixCalls) < MaxCalls
    /\ \E n \in MixedBufferLens, fail \in FailingPiece :
        LET r == MixedLoop(mixedGen, n, 0, fail, <<>>)
        IN  /\ mixedGen' = r.gen
            /\ mixCalls' = Append(mixCalls, [len |-> n, err |-> r.err])
            /\ mixStream' = IF r.err THEN mixStream ELSE mixStream \o r.out
    /\ UNCHANGED <<pipe, handler, progressReporter, checksum, fwriter, seqgen, poolapi, content>>

\* g := NewMixedGenerator(c)
InitMixed ==
    \E c \in MixedChunkSizes :
        /\ PipelineNew(1, MaxChunk, MaxTotal, "zero")
        /\ SharedObjectsNew
        /\ MixedNew(c)
        /\ ReporterNew(FALSE)

SpecMixed == InitMixed /\ [][MixedGenerate]_vars

\* No call of Generate has returned an error.
NoCallFailed == \A k \in 1..Len(mixCalls) : ~mixCalls[k].err

\* The generator that writes the byte at position p (from 0) of the stream of
\* a MixedGenerator with chunk size c.
PhaseAt(p, c) == IF (p \div c) % 2 = 0 THEN "random" ELSE "zero"

\* C31: the phase of a MixedGenerator is carried across calls: as long as no
\* call has failed, in the buffers filled so far taken one after the other the
\* byte at position p was written by the random generator when floor(p / c)
\* is even and by the zero generator when it is odd, and the cursor of the
\* generator is where that stream ends.
C31_MixedPhaseAcrossCalls ==
    NoCallFailed =>
        /\ \A p \in 0..(Len(mixStream) - 1) :
            mixStream[p + 1] = PhaseAt(p, mixedGen.chunkSize)
        /\ mixedGen.currentPos = Len(mixStream) % mixedGen.chunkSize
        /\ mixedGen.isRandom = (PhaseAt(Len(mixStream), mixedGen.chunkSize) = "random")

\* MaxCalls calls have succeeded, the second began in the middle of a chunk
\* and the stream has gone through a random and a zero chunk and ends inside
\* a chunk.
C31_Witness ==
    /\ Len(mixCalls) = MaxCalls
    /\ NoCallFailed
    /\ mixCalls[1].len % mixedGen.chunkSize # 0
    /\ Len(mixStream) > 2 * mixedGen.chunkSize
    /\ mixedGen.currentPos > 0

----------------------------------------------------------------------------
\* ProgressReporter (internal/progress), called by up to MaxCallers goroutines,
\* MaxOps times in all

\* A goroutine calls Start, Stop or IsRunning.
ReporterCall(c) ==
    /\ prCalls[c].pc = "idle"
    /\ prHist.started < MaxOps
    /\ \E op \in {"Start", "Stop", "IsRunning"} :
        prCalls' = [prCalls EXCEPT ![c] = [pc |-> "lock", op |-> op, ret |-> "none"]]
    /\ prHist' = [prHist EXCEPT !.started = @ + 1]
    /\ UNCHANGED <<pipe, handler, checksum, fwriter, seqgen, poolapi, content, mixed,
                   reporter, loops>>

\* p.mu.Lock() at the top of Start, Stop and IsRunning
ReporterLock(c) ==
    /\ prCalls[c].pc = "lock"
    /\ reporter.mu = 0
    /\ reporter' = [reporter EXCEPT !.mu = c]
    /\ prCalls' = [prCalls EXCEPT ![c].pc = "body"]
    /\ UNCHANGED <<pipe, handler, checksum, fwriter, seqgen, poolapi, content, mixed,
                   loops, prHist>>

\* Mutant: Start does not look at p.running.
ReporterStartAlways(c) ==
    /\ prCalls[c].pc = "body"
    /\ prCalls[c].op = "Start"
    /\ reporter' = [reporter EXCEPT !.running = TRUE, !.mu = 0]
    /\ loops' = IF reporter.showProgress THEN Append(loops, "select") ELSE loops
    /\ prCalls' = [prCalls EXCEPT ![c] = [pc |-> "idle", op |-> "Start", ret |-> "started"]]
    /\ UNCHANGED <<pipe, handler, checksum, fwriter, seqgen, poolapi, content, mixed, prHist>>

\* Start under the lock: if p.running { return }; p.running = true;
\* if !p.showProgress { return }; go p.progressLoop(getWrittenFunc); unlock
ReporterStart(c) ==
    /\ prCalls[c].pc = "body"
    /\ prCalls[c].op = "Start"
    /\ IF reporter.running
       THEN /\ reporter' = [reporter EXCEPT !.mu = 0]
            /\ loops' = loops
            /\ prCalls' = [prCalls EXCEPT ![c] = [pc |-> "idle", op |-> "Start", ret |-> "ignored"]]
       ELSE /\ reporter' = [reporter EXCEPT !.running = TRUE, !.mu = 0]
            /\ loops' = IF reporter.showProgress THEN Append(loops, "select") ELSE loops
            /\ prCalls' = [prCalls EXCEPT ![c] = [pc |-> "idle", op |-> "Start", ret |-> "started"]]
    /\ UNCHANGED <<pipe, handler, checksum, fwriter, seqgen, poolapi, content, mixed, prHist>>

\* Stop under the lock: if !p.running { return }; p.running = false;
\* select { case <-p.done: default: close(p.done) }; unlock
ReporterStop(c) ==
    /\ prCalls[c].pc = "body"
    /\ prCalls[c].op = "Stop"
    /\ IF ~reporter.running
       THEN /\ reporter' = [reporter EXCEPT !.mu = 0]
            /\ prHist' = prHist
            /\ prCalls' = [prCalls EXCEPT ![c] = [pc |-> "idle", op |-> "Stop", ret |-> "ignored"]]
       ELSE /\ reporter' = [reporter EXCEPT !.running = FALSE, !.done = "closed", !.mu = 0]
            /\ prHist' = IF reporter.done = "closed" THEN prHist
                         ELSE [prHist EXCEPT !.closes = @ + 1]
            /\ prCalls' = [prCalls EXCEPT ![c] = [pc |-> "idle", op |-> "Stop", ret |-> "stopped"]]
    /\ UNCHANGED <<pipe, handler, checksum, fwriter, seqgen, poolapi, content, mixed, loops>>

\* IsRunning under the lock: return p.running
ReporterIsRunning(c) ==
    /\ prCalls[c].pc = "body"
    /\ prCalls[c].op = "IsRunning"
    /\ reporter' = [reporter EXCEPT !.mu = 0]
    /\ prCalls' = [prCalls EXCEPT ![c] = [pc |-> "idle", op |-> "IsRunning",
                                          ret |-> IF reporter.running THEN "true" ELSE "false"]]
    /\ UNCHANGED <<pipe, handler, checksum, fwriter, seqgen, poolapi, content, mixed,
                   loops, prHist>>

\* progressLoop: case <-ticker.C: p.update(...) takes p.mu
LoopTick(k) ==
    /\ loops[k] = "select"
    /\ reporter.mu = 0
    /\ reporter' = [reporter EXCEPT !.mu = -k]
    /\ loops' = [loops EXCEPT ![k] = "update"]
    /\ UNCHANGED <<pipe, handler, checksum, fwriter, seqgen, poolapi, content, mixed,
                   prCalls, prHist>>

\* update returns (the deferred p.mu.Unlock()), back to the select
LoopUpdated(k) ==
    /\ loops[k] = "update"
    /\ reporter' = [reporter EXCEPT !.mu = 0]
    /\ loops' = [loops EXCEPT ![k] = "select"]
    /\ UNCHANGED <<pipe, handler, checksum, fwriter, seqgen, poolapi, content, mixed,
                   prCalls, prHist>>

\* progressLoop: case <-p.done: p.printFinalStats(...); return
LoopDone(k) ==
    /\ loops[k] = "select"
    /\ reporter.done = "closed"
    /\ loops' = [loops EXCEPT ![k] = "exited"]
    /\ UNCHANGED <<pipe, handler, checksum, fwriter, seqgen, poolapi, content, mixed,
                   reporter, prCalls, prHist>>

NextReporter ==
    \/ \E c \in Callers : ReporterCall(c)
    \/ \E c \in Callers : ReporterLock(c)
    \/ \E c \in Callers : ReporterStart(c)
    \/ \E c \in Callers : ReporterStop(c)
    \/ \E c \in Callers : ReporterIsRunning(c)
    \/ \E k \in 1..Len(loops) : LoopTick(k)
    \/ \E k \in 1..Len(loops) : LoopUpdated(k)
    \/ \E k \in 1..Len(loops) : LoopDone(k)

\* pr := NewProgressReporter(totalSize, verbose, &buf), with progress shown
\* (a file of 1 GB or more, or verbose) or not
InitReporter ==
    \E show \in BOOLEAN :
        /\ PipelineNew(1, MaxChunk, MaxTotal, "zero")
        /\ SharedObjectsNew
        /\ MixedNew(DefaultChunk)
        /\ ReporterNew(show)

SpecReporter == InitReporter /\ [][NextReporter]_vars

\* The step is the body of caller c's call of op, taken under the lock.
BodyOf(c, op) == prCalls[c].pc = "body" /\ prCalls[c].op = op /\ prCalls'[c].pc = "idle"

\* The progress loops started after the last close of done that are still
\* running; done is closed once, so these are the loops started while done
\* was open.
LiveLoops == {k \in 1..Len(loops) : loops[k] # "exited"}

\* C32: whatever the interleaving of the calls of Start and Stop, done is
\* closed at most once; a Start that finds the reporter running changes
\* nothing and starts no progress loop; a Stop that finds it not running
\* changes nothing; when a Start returns running is true and when a Stop
\* returns it is false, and IsRunning returns running.
C32_StartStopIdempotent ==
    /\ [](prHist.closes <= 1)
    /\ [](reporter.done = "open" => Cardinality(LiveLoops) <= 1)
    /\ [][\A c \in Callers :
            /\ (BodyOf(c, "Start") /\ reporter.running) =>
                    /\ loops' = loops
                    /\ reporter' = [reporter EXCEPT !.mu = 0]
                    /\ prHist' = prHist
            /\ (BodyOf(c, "Start") /\ ~reporter.running) =>
                    Len(loops') = Len(loops) + (IF reporter.showProgress THEN 1 ELSE 0)
            /\ (BodyOf(c, "Stop") /\ ~reporter.running) =>
                    /\ loops' = loops
                    /\ reporter' = [reporter EXCEPT !.mu = 0]
                    /\ prHist' = prHist
            /\ BodyOf(c, "Start") => reporter'.running
            /\ BodyOf(c, "Stop") => ~reporter'.running
            /\ (BodyOf(c, "Stop") /\ reporter.running) => reporter'.done = "closed"
            /\ BodyOf(c, "IsRunning") =>
                    /\ prCalls'[c].ret = (IF reporter.running THEN "true" ELSE "false")
                    /\ reporter'.running = reporter.running]_vars

\* The reporter was started, stopped and started again, and a second Stop,
\* now under the lock, finds it running with done closed already.
C32_Witness ==
    /\ reporter.running
    /\ reporter.done = "closed"
    /\ prHist.closes = 1
    /\ loops # <<>>
    /\ \E c \in Callers : prCalls[c].pc = "body" /\ prCalls[c].op = "Stop"

====
